---- MODULE Spec2Model ----
(***************************************************************************)
(* Multi-session orchestration engine of oh-my-claudeclaw:                 *)
(*   - the session registry        (src/src/session-registry.ts)           *)
(*   - the sessions shim           (src/unnamed/part_006, lines 84-158)    *)
(*   - the runner: per-group queue, rotation check, executor               *)
(*                                 (src/unnamed/part_004, lines 65-462)    *)
(*                                                                         *)
(* JavaScript runs the daemon on one event loop: code between two awaits   *)
(* is atomic, and at every await another task may run.  Each action below  *)
(* is one such atomic stretch of one invocation.                           *)
(*                                                                         *)
(* Strings that the code builds by concatenation are sequences of string   *)
(* tokens: "ops" is <<"ops">>, `__stateless_${n}` is                       *)
(* <<"__stateless_", ToString(n)>>, `${group}__archived_${Date.now()}` is  *)
(* group \o <<"__archived_", ToString(now)>>.                              *)
(***************************************************************************)
EXTENDS Integers, Sequences, FiniteSets, TLC

VARIABLES
    groupQueues,       \* part_004:108  key -> index of the task whose promise is the tail
    statelessCounter,  \* part_004:109
    sessions,          \* session-registry.ts:17-21  reg.sessions of the cached registry
    tasks,             \* the invocations made so far, in the order they were made
    now,               \* Date.now()
    nextSid,           \* session ids the external agent has issued so far
    messageSessionMap, \* whisper-warmup.ts:22  botMessageId -> sessionGroup, in insertion order
    mapLoaded,         \* whisper-warmup.ts:23
    calls,             \* the router and registry calls made so far, each with its position
    files,             \* the files under .claude/claudeclaw/sessions, by name
    cached             \* session-registry.ts:21  whether the registry cache is set

routerVars == <<messageSessionMap, mapLoaded, calls>>

diskVars == <<files, cached>>

vars == <<groupQueues, statelessCounter, sessions, tasks, now, nextSid, routerVars, diskVars>>

----------------------------------------------------------------------------
(* Bounds of the model *)

MaxTasks == 2
MaxTime == 1

----------------------------------------------------------------------------
(* Program constants *)

DEFAULT_ROTATION_THRESHOLD == 120000

DefaultGroup == <<"default">>

ArchivedMark == "__archived_"

StatelessMark == "__stateless_"

\* options?.sessionGroup absent
NoGroup == <<>>

\* const existing = null
Null == <<>>

\* json.session_id of an output object that has no such field
UndefinedSid == 0

\* group names that callers pass as options.sessionGroup
GroupNames == { <<"ops">>, <<StatelessMark, "1">> }

RunOptions == [sessionGroup : GroupNames \cup {NoGroup}, noSessionPersistence : BOOLEAN]


----------------------------------------------------------------------------
(* Session registry *)

Includes(str, token) == \E i \in DOMAIN str : str[i] = token

\* Array.prototype.findIndex on s.group === group; 0 stands for -1
FindIndex(s, group) ==
    IF \E i \in DOMAIN s : s[i].group = group
    THEN CHOOSE i \in DOMAIN s :
            /\ s[i].group = group
            /\ \A j \in 1..(i - 1) : s[j].group # group
    ELSE 0

\* the entry getSessionForGroup returns (Null when there is none)
GetEntry(s, group, t) ==
    IF FindIndex(s, group) = 0 THEN Null
    ELSE <<[s[FindIndex(s, group)] EXCEPT !.lastUsedAt = t]>>

\* the registry getSessionForGroup leaves
getSessionForGroup(s, group, t) ==
    IF FindIndex(s, group) = 0 THEN s
    ELSE [s EXCEPT ![FindIndex(s, group)].lastUsedAt = t]

NewEntry(group, sessionId, t) ==
    [sessionId |-> sessionId, group |-> group, createdAt |-> t, lastUsedAt |-> t,
     contentTokens |-> 0, summary |-> <<>>]

\* a create that pushes without looking for the group's entry
createSessionForGroup_AlwaysPush(s, group, sessionId, t) ==
    Append(s, NewEntry(group, sessionId, t))

createSessionForGroup(s, group, sessionId, t) ==
    IF FindIndex(s, group) > 0
    THEN [s EXCEPT ![FindIndex(s, group)] = NewEntry(group, sessionId, t)]
    ELSE Append(s, NewEntry(group, sessionId, t))

updateTokenCount(s, group, tokens) ==
    IF FindIndex(s, group) = 0 THEN s
    ELSE [s EXCEPT ![FindIndex(s, group)].contentTokens = tokens]

ArchiveGroup(group, t) == group \o <<ArchivedMark, ToString(t)>>

\* an archive that takes the entry out of the registry
rotateSession_Splice(s, group, summary, t) ==
    IF FindIndex(s, group) = 0 THEN s
    ELSE SubSeq(s, 1, FindIndex(s, group) - 1) \o SubSeq(s, FindIndex(s, group) + 1, Len(s))

\* an archive that records the summary and leaves the group name as it is
rotateSession_SummaryOnly(s, group, summary, t) ==
    IF FindIndex(s, group) = 0 THEN s
    ELSE [s EXCEPT ![FindIndex(s, group)].summary = IF summary # <<>> THEN summary ELSE @]

rotateSession(s, group, summary, t) ==
    IF FindIndex(s, group) = 0 THEN s
    ELSE [s EXCEPT ![FindIndex(s, group)] =
            [@ EXCEPT !.summary = IF summary # <<>> THEN summary ELSE @,
                      !.group = ArchiveGroup(group, t)]]

\* a listing that forgets the filter on the archival mark
listSessions_Unfiltered(s) == s

listSessions(s) == SelectSeq(s, LAMBDA e : ~Includes(e.group, ArchivedMark))

\* what rotateSession returns: null, or old.sessionId
rotateSessionReturns(s, group) ==
    IF FindIndex(s, group) = 0 THEN Null ELSE <<s[FindIndex(s, group)].sessionId>>

listAllSessions(s) == s

----------------------------------------------------------------------------
(* Sessions shim: the reserved default group *)

getSession(s, t) == GetEntry(s, DefaultGroup, t)

createSession(s, sessionId, t) == createSessionForGroup(s, DefaultGroup, sessionId, t)

----------------------------------------------------------------------------
(* Token estimator (src/src/token-estimator.ts).  A transcript is the lines of a  *)
(* JSONL file; a line is given by what JSON.parse makes of it and by the members  *)
(* the scan reads.  A JavaScript number is [nan |-> FALSE, n |-> its value] or    *)
(* NaN.                                                                           *)

Number(n) == [nan |-> FALSE, n |-> n]

NaN == [nan |-> TRUE, n |-> 0]

\* values of members: a string of `len` characters, a number of `len` digits, an
\* array of `len` items, an object, or a member that is not there
Str(len) == [type |-> "string", len |-> len, items |-> <<>>]

Num(len) == [type |-> "number", len |-> len, items |-> <<>>]

Arr(items) == [type |-> "array", len |-> Len(items), items |-> items]

Absent == [type |-> "undefined", len |-> 0, items |-> <<>>]

\* an item of a content array: null, or an object with its text and content members
Block(text, content) == [isNull |-> FALSE, text |-> text, content |-> content]

NullBlock == [isNull |-> TRUE, text |-> Absent, content |-> Absent]

\* if (value)
Truthy(value) ==
    CASE value.type = "undefined" -> FALSE
      [] value.type \in {"string", "number"} -> value.len > 0
      [] OTHER -> TRUE

\* value.length: strings and arrays have one, of anything else it is undefined
LengthOf(value) ==
    IF value.type \in {"string", "array"} THEN Number(value.len) ELSE NaN

\* String(value).length
StringLength(value) ==
    CASE value.type \in {"string", "number"} -> Number(value.len)
      [] value.type = "array" ->
            Number(IF value.len = 0 THEN 0 ELSE 16 * value.len - 1)
      [] OTHER -> Number(15)

\* totalChars += x
Plus(total, x) == IF total.nan \/ x.nan THEN NaN ELSE Number(total.n + x.n)

\* a scan that counts a text only when it is a string
AddBlock_StringsOnly(total, block, withContent) ==
    LET afterText == IF block.text.type = "string"
                     THEN Plus(total, LengthOf(block.text)) ELSE total
    IN  IF withContent /\ Truthy(block.content)
        THEN Plus(afterText, StringLength(block.content))
        ELSE afterText

\* if (block.text) totalChars += block.text.length;
\* if (block.content) totalChars += String(block.content).length   (message only)
AddBlock(total, block, withContent) ==
    LET afterText == IF Truthy(block.text)
                     THEN Plus(total, LengthOf(block.text)) ELSE total
    IN  IF withContent /\ Truthy(block.content)
        THEN Plus(afterText, StringLength(block.content))
        ELSE afterText

\* for (const block of content): reading a member of a null item throws
RECURSIVE AddBlocks(_, _, _)
AddBlocks(total, blocks, withContent) ==
    IF blocks = <<>> THEN [total |-> total, thrown |-> FALSE]
    ELSE IF Head(blocks).isNull THEN [total |-> total, thrown |-> TRUE]
    ELSE AddBlocks(AddBlock(total, Head(blocks), withContent), Tail(blocks), withContent)

\* the two branches on typeof content and Array.isArray(content)
AddContent(total, content, withContent) ==
    IF ~Truthy(content) THEN [total |-> total, thrown |-> FALSE]
    ELSE IF content.type = "string"
    THEN [total |-> Plus(total, LengthOf(content)), thrown |-> FALSE]
    ELSE IF content.type = "array" THEN AddBlocks(total, content.items, withContent)
    ELSE [total |-> total, thrown |-> FALSE]

\* one turn of the loop over text.split("\n"): blank lines are passed over, and
\* whatever is thrown inside the try ends the turn
ScanLine(total, line) ==
    IF line.parse # "ok" \/ line.obj = "null" THEN total
    ELSE LET message == AddContent(total, line.message, TRUE)
         IN  IF message.thrown THEN message.total
             ELSE AddContent(message.total, line.result, FALSE).total

RECURSIVE ScanLines(_, _)
ScanLines(total, lines) ==
    IF lines = <<>> THEN total ELSE ScanLines(ScanLine(total, Head(lines)), Tail(lines))

\* Math.round(totalChars / 3.7): the nearest integer, which for a whole number of
\* characters is never a tie
Round(total) == IF total.nan THEN NaN ELSE Number((20 * total.n + 37) \div 74)

NoTranscript == [found |-> FALSE, lines |-> <<>>]

Transcript(lines) == [found |-> TRUE, lines |-> lines]

\* an estimate that takes a session without a transcript for a full one
estimateSessionTokens_FullWhenMissing(transcript) ==
    IF ~transcript.found THEN Number(DEFAULT_ROTATION_THRESHOLD)
    ELSE Round(ScanLines(Number(0), transcript.lines))

\* estimateSessionTokens(sessionId), by the transcript findTranscriptPath finds
estimateSessionTokens(transcript) ==
    IF ~transcript.found THEN Number(0)
    ELSE Round(ScanLines(Number(0), transcript.lines))

\* a line of a transcript: `chars` is the number of characters of message text and
\* tool output that the line holds when it is a record of the expected shape, and
\* 0 when it is not
Line(parse, obj, message, result, chars) ==
    [parse |-> parse, obj |-> obj, message |-> message, result |-> result,
     chars |-> chars]

\* the lines the scan is tried on: a blank line; a line that does not parse; a
\* message with a string content; a message with two text blocks; a record without
\* content; a tool result; a message with a tool output block; the JSON null; a
\* message whose content is a number; a text block whose text is a number; a
\* content array whose first item is null
Lines ==
    { Line("blank", "none", Absent, Absent, 0),
      Line("error", "none", Absent, Absent, 0),
      Line("ok", "object", Str(120), Absent, 120),
      Line("ok", "object", Arr(<<Block(Str(100), Absent), Block(Str(150), Absent)>>),
           Absent, 250),
      Line("ok", "object", Absent, Absent, 0),
      Line("ok", "object", Absent, Str(30), 30),
      Line("ok", "object", Arr(<<Block(Absent, Str(40))>>), Absent, 40),
      Line("ok", "null", Absent, Absent, 0),
      Line("ok", "object", Num(2), Absent, 0),
      Line("ok", "object", Arr(<<Block(Num(1), Absent)>>), Absent, 0),
      Line("ok", "object", Arr(<<NullBlock, Block(Str(10), Absent)>>), Absent, 0) }

\* the transcripts of the sessions that the runner estimates: none found, and one
\* message just short of and one at the default rotation threshold
SessionTranscripts ==
    { NoTranscript,
      Transcript(<<Line("ok", "object", Str(443996), Absent, 443996)>>),
      Transcript(<<Line("ok", "object", Str(444000), Absent, 444000)>>) }

\* the estimates they give
TokenEstimates == {estimateSessionTokens(transcript).n : transcript \in SessionTranscripts}

----------------------------------------------------------------------------
(* Runner *)

Settled == {"fulfilled", "rejected"}

\* const group = options?.sessionGroup ?? "default"
GroupOf(options) ==
    IF options.sessionGroup # NoGroup THEN options.sessionGroup ELSE DefaultGroup

StatelessKey(n) == <<StatelessMark, ToString(n)>>

\* the key run() hands to enqueue
RunKey(options) ==
    IF options.noSessionPersistence
    THEN StatelessKey(statelessCounter + 1)
    ELSE GroupOf(options)

\* a queue that chains nothing: every task starts from a resolved promise
PrevOf_Unchained(key) == 0

\* one serial queue for all keys: every task is chained behind the last one submitted
PrevOf_Global(key) == Len(tasks)

\* groupQueues.get(key) ?? Promise.resolve(): 0 is the resolved promise
PrevOf(key) == IF key \in DOMAIN groupQueues THEN groupQueues[key] ELSE 0

\* where execClaude first touches shared state, by its options
FirstStep(options) ==
    IF options.noSessionPersistence THEN "runClaudeOnce"
    ELSE IF options.sessionGroup # NoGroup THEN "checkAndRotate"
    ELSE "getExisting"

\* the locals of an invocation that is not inside execClaude
NoLocals ==
    [existing |-> Null, rotating |-> UndefinedSid, tokens |-> 0,
     sessionId |-> UndefinedSid]

NewTask(via, key, options, prev, pc) ==
    [via |-> via, key |-> key, options |-> options, prev |-> prev, pc |-> pc,
     locals |-> NoLocals]

\* enqueue(key, fn): chain fn behind the tail for key, and make it the new tail
enqueue(key, options) ==
    /\ tasks' = Append(tasks, NewTask("run", key, options, PrevOf(key), "queued"))
    /\ groupQueues' = (key :> (Len(tasks) + 1)) @@ groupQueues

\* run(name, prompt, options)
run(options) ==
    /\ Len(tasks) < MaxTasks
    /\ enqueue(RunKey(options), options)
    /\ statelessCounter' =
          IF options.noSessionPersistence THEN statelessCounter + 1 ELSE statelessCounter
    /\ UNCHANGED <<sessions, now, nextSid>>
    /\ UNCHANGED <<routerVars, diskVars>>

\* prev.then(fn): fn is not called when the previous task was rejected
PrevSettled_FulfilledOnly(t) ==
    IF t.prev = 0 THEN TRUE ELSE tasks[t.prev].pc = "fulfilled"

\* fn is called as soon as it is chained, without waiting for the tail
PrevSettled_NoWait(t) == TRUE

\* the promise a task was chained behind has settled (fulfilled or rejected)
PrevSettled(t) == IF t.prev = 0 THEN TRUE ELSE tasks[t.prev].pc \in Settled

\* prev.then(fn, fn): fn is called once the previous tail has settled
Start(i) ==
    /\ tasks[i].pc = "queued"
    /\ PrevSettled(tasks[i])
    /\ tasks' = [tasks EXCEPT ![i].pc = FirstStep(tasks[i].options)]
    /\ UNCHANGED <<groupQueues, statelessCounter, sessions, now, nextSid>>
    /\ UNCHANGED <<routerVars, diskVars>>

\* checkAndRotate: const entry = await getSessionForGroup(group); if (!entry) return
CheckAndRotate(i) ==
    LET group == GroupOf(tasks[i].options)
        entry == GetEntry(sessions, group, now)
    IN  /\ tasks[i].pc = "checkAndRotate"
        /\ sessions' = getSessionForGroup(sessions, group, now)
        /\ tasks' = IF entry = Null
                    THEN [tasks EXCEPT ![i].pc = "getExisting"]
                    ELSE [tasks EXCEPT ![i].pc = "estimate",
                                       ![i].locals.rotating = entry[1].sessionId]
        /\ UNCHANGED <<groupQueues, statelessCounter, now, nextSid>>
        /\ UNCHANGED <<routerVars, diskVars>>

\* const tokens = await estimateSessionTokens(entry.sessionId)
Estimate(i) ==
    /\ tasks[i].pc = "estimate"
    /\ \E n \in TokenEstimates :
          tasks' = [tasks EXCEPT ![i].pc = "updateTokenCount", ![i].locals.tokens = n]
    /\ UNCHANGED <<groupQueues, statelessCounter, sessions, now, nextSid>>
    /\ UNCHANGED <<routerVars, diskVars>>

\* an off-by-one comparison: if (tokens <= threshold) return
BelowThreshold_OffByOne(tokens) == tokens <= DEFAULT_ROTATION_THRESHOLD

\* if (tokens < threshold) return, with the default threshold
BelowThreshold(tokens) == tokens < DEFAULT_ROTATION_THRESHOLD

\* await updateTokenCount(group, tokens); if (tokens < threshold) return
UpdateTokenCount(i) ==
    /\ tasks[i].pc = "updateTokenCount"
    /\ sessions' = updateTokenCount(sessions, GroupOf(tasks[i].options),
                                    tasks[i].locals.tokens)
    /\ tasks' = IF BelowThreshold(tasks[i].locals.tokens)
                THEN [tasks EXCEPT ![i].pc = "getExisting", ![i].locals = NoLocals]
                ELSE [tasks EXCEPT ![i].pc = "rotateSession"]
    /\ UNCHANGED <<groupQueues, statelessCounter, now, nextSid>>
    /\ UNCHANGED <<routerVars, diskVars>>

\* await rotateSession(group, `Auto-rotated at ${tokens} tokens`); the invocation
\* keeps, in `rotating`, the session id of the entry its check has archived
RotateSession(i) ==
    /\ tasks[i].pc = "rotateSession"
    /\ sessions' = rotateSession(sessions, GroupOf(tasks[i].options),
                        <<"Auto-rotated at", ToString(tasks[i].locals.tokens)>>, now)
    /\ tasks' = [tasks EXCEPT ![i].pc = "getExisting", ![i].locals.tokens = 0]
    /\ UNCHANGED <<groupQueues, statelessCounter, now, nextSid>>
    /\ UNCHANGED <<routerVars, diskVars>>

\* existing = options?.sessionGroup ? await getSessionForGroup(group) : await getSession()
\* then isNew = !existing, and the log line reads existing!.sessionId.slice(0, 8),
\* which throws when the entry has no sessionId
GetExisting(i) ==
    LET group == GroupOf(tasks[i].options)
        entry == GetEntry(sessions, group, now)
    IN  /\ tasks[i].pc = "getExisting"
        /\ sessions' = getSessionForGroup(sessions, group, now)
        /\ tasks' =
              IF entry = Null
              THEN [tasks EXCEPT ![i].pc = "runClaudeOnce"]
              ELSE IF entry[1].sessionId = UndefinedSid
              THEN [tasks EXCEPT ![i].pc = "rejected"]
              ELSE [tasks EXCEPT ![i].pc = "runClaudeOnce",
                                 ![i].locals.existing = <<entry[1].sessionId>>]
        /\ UNCHANGED <<groupQueues, statelessCounter, now, nextSid>>
        /\ UNCHANGED <<routerVars, diskVars>>

\* model names and credentials are sequences of characters
Lower(c) == CASE c = "O" -> "o" [] c = "G" -> "g" [] OTHER -> c

toLowerCase(str) == [k \in DOMAIN str |-> Lower(str[k])]

RECURSIVE trim(_)
trim(str) ==
    IF str = <<>> THEN <<>>
    ELSE IF Head(str) = " " THEN trim(Tail(str))
    ELSE IF str[Len(str)] = " " THEN trim(SubSeq(str, 1, Len(str) - 1))
    ELSE str

sameModelConfig(a, b) ==
    /\ toLowerCase(trim(a.model)) = toLowerCase(trim(b.model))
    /\ trim(a.api) = trim(b.api)

hasModelConfig(value) == Len(trim(value.model)) > 0 \/ Len(trim(value.api)) > 0

\* primaryConfig and fallbackConfig as execClaude builds them from getSettings():
\* no fallback, a blank one, the primary's model written differently, the same model
\* with a credential of its own, another model
Settings ==
    LET opus == [model |-> <<"o", "p", "u", "s">>, api |-> <<>>]
    IN  { [primary |-> opus, fallback |-> [model |-> <<>>, api |-> <<>>]],
          [primary |-> opus, fallback |-> [model |-> <<" ">>, api |-> <<>>]],
          [primary |-> opus, fallback |-> [model |-> <<"O", "p", "u", "s", " ">>, api |-> <<>>]],
          [primary |-> opus, fallback |-> [model |-> <<"o", "p", "u", "s">>, api |-> <<"k">>]],
          [primary |-> opus, fallback |-> [model |-> <<"g", "l", "m">>, api |-> <<>>]] }

\* args that ask for text and carry no --resume whatever was found
Args_NeverResume(existing) == [outputFormat |-> "text", resume |-> Null]

\* const outputFormat = isNew ? "json" : "text"; args = [..., "--output-format",
\* outputFormat, ...]; if (!isNew) args.push("--resume", existing.sessionId)
Args(existing) ==
    [outputFormat |-> IF existing = Null THEN "json" ELSE "text", resume |-> existing]

\* const exitCode = exec.exitCode: 0, or 1 for any other code (a rate-limited call
\* is taken as failed)
ExitCode(outcome) == IF outcome \in {"ok", "okNoSessionId", "okUnparsable"} THEN 0 ELSE 1

\* what one external call can come to: Bun.spawn throws; the output carries the
\* rate-limit signature; a non-zero exit; exit 0 with output that parses and carries a
\* session_id, or exit 0 with output that does not parse (a resumed call asks for
\* text, which is never parsed)
Outcomes(isNew) ==
    IF isNew THEN {"throw", "rateLimit", "nonzero", "ok", "okUnparsable"}
    ELSE {"throw", "rateLimit", "nonzero", "ok"}

\* the parse branch without its !rateLimitMessage guard: a rate-limited result of a
\* new session is parsed as well
Parsed_IgnoresRateLimit(t, outcome) ==
    t.locals.existing = Null /\ outcome \in {"ok", "rateLimit"}

\* the parse branch without its exitCode === 0 guard: the output of a failed call is
\* parsed as well
Parsed_IgnoresExitCode(t, outcome) ==
    t.locals.existing = Null /\ outcome \in {"ok", "nonzero"}

\* if (!rateLimitMessage && isNew && exitCode === 0) { JSON.parse ... } succeeds:
\* the output is JSON, with a session_id ("ok") or without one ("okNoSessionId")
Parsed(t, outcome) == t.locals.existing = Null /\ outcome \in {"ok", "okNoSessionId"}

\* ... and one of the two create branches is taken
Creates(t, outcome) ==
    /\ Parsed(t, outcome)
    /\ t.options.sessionGroup # NoGroup \/ ~t.options.noSessionPersistence

\* the external call takes seconds to minutes: the clock may move on during it
Elapse == now' \in {t \in {now, now + 1} : t <= MaxTime}

\* let stdout = rawStdout; if (rateLimitMessage) stdout = rateLimitMessage;
\* and in the parse branch stdout = json.result ?? "": the text the result carries
ResultStdout(t, outcome) ==
    LET surfaced == IF outcome = "rateLimit" THEN "rateLimitMessage" ELSE "rawStdout"
    IN  IF Parsed(t, outcome) THEN "json.result" ELSE surfaced

\* JSON.parse outside any try: output that does not parse rejects the invocation
AfterExec_ParseThrows(i, outcome) ==
    LET t == tasks[i]
        issued == Parsed(t, outcome) /\ outcome = "ok"
    IN  /\ tasks' = IF t.locals.existing = Null /\ outcome = "okUnparsable"
                    THEN [tasks EXCEPT ![i].pc = "rejected", ![i].locals = NoLocals]
                    ELSE [tasks EXCEPT
                            ![i].locals.sessionId = IF issued THEN nextSid + 1 ELSE UndefinedSid,
                            ![i].pc = IF Creates(t, outcome) THEN "createSession" ELSE "writeLog"]
        /\ nextSid' = IF issued THEN nextSid + 1 ELSE nextSid

\* the rest of execClaude once the last external call has returned `outcome`
AfterExec(i, outcome) ==
    LET t == tasks[i]
        issued == Parsed(t, outcome) /\ outcome = "ok"
    IN  /\ tasks' = [tasks EXCEPT
              ![i].locals.sessionId = IF issued THEN nextSid + 1 ELSE UndefinedSid,
              ![i].pc = IF Creates(t, outcome) THEN "createSession" ELSE "writeLog"]
        /\ nextSid' = IF issued THEN nextSid + 1 ELSE nextSid

\* a retry whenever the primary call is rate-limited and some fallback is configured
UsesFallback_NotCompared(outcome, primaryConfig, fallbackConfig) ==
    outcome = "rateLimit" /\ hasModelConfig(fallbackConfig)

\* if (primaryRateLimit && hasModelConfig(fallbackConfig)
\*     && !sameModelConfig(primaryConfig, fallbackConfig))
UsesFallback(outcome, primaryConfig, fallbackConfig) ==
    /\ outcome = "rateLimit"
    /\ hasModelConfig(fallbackConfig)
    /\ ~sameModelConfig(primaryConfig, fallbackConfig)

\* what the condition comes to on a rate-limited primary call, over the settings
RetryDecisions == {UsesFallback("rateLimit", x.primary, x.fallback) : x \in Settings}

\* let exec = await runClaudeOnce(args, primaryConfig...); on the rate-limit signature,
\* with the settings execClaude has read, the call may be retried with the fallback
RunClaudeOnce(i) ==
    /\ tasks[i].pc = "runClaudeOnce"
    /\ \E outcome \in Outcomes(tasks[i].locals.existing = Null) :
          CASE outcome = "throw" ->
                  /\ tasks' = [tasks EXCEPT ![i].pc = "rejected", ![i].locals = NoLocals]
                  /\ UNCHANGED nextSid
            [] outcome = "rateLimit" ->
                  \E hasFallback \in RetryDecisions :
                     IF hasFallback
                     THEN /\ tasks' = [tasks EXCEPT ![i].pc = "runFallback"]
                          /\ UNCHANGED nextSid
                     ELSE AfterExec(i, outcome)
            [] OTHER -> AfterExec(i, outcome)
    /\ Elapse
    /\ UNCHANGED <<groupQueues, statelessCounter, sessions>>
    /\ UNCHANGED <<routerVars, diskVars>>

\* exec = await runClaudeOnce(args, fallbackConfig...); usedFallback = true
RunFallback(i) ==
    /\ tasks[i].pc = "runFallback"
    /\ \E outcome \in Outcomes(tasks[i].locals.existing = Null) :
          IF outcome = "throw"
          THEN /\ tasks' = [tasks EXCEPT ![i].pc = "rejected", ![i].locals = NoLocals]
               /\ UNCHANGED nextSid
          ELSE AfterExec(i, outcome)
    /\ Elapse
    /\ UNCHANGED <<groupQueues, statelessCounter, sessions>>
    /\ UNCHANGED <<routerVars, diskVars>>

\* if (options?.sessionGroup) await createSessionForGroup(group, sessionId)
\* else if (!options?.noSessionPersistence) await createSession(sessionId)
CreateSession(i) ==
    /\ tasks[i].pc = "createSession"
    /\ sessions' =
          IF tasks[i].options.sessionGroup # NoGroup
          THEN createSessionForGroup(sessions, GroupOf(tasks[i].options),
                                     tasks[i].locals.sessionId, now)
          ELSE createSession(sessions, tasks[i].locals.sessionId, now)
    /\ tasks' = [tasks EXCEPT ![i].pc = "writeLog"]
    /\ UNCHANGED <<groupQueues, statelessCounter, now, nextSid>>
    /\ UNCHANGED <<routerVars, diskVars>>

\* await Bun.write(logFile, output); return result
WriteLog(i) ==
    /\ tasks[i].pc = "writeLog"
    /\ tasks' = [tasks EXCEPT ![i].pc = "fulfilled", ![i].locals = NoLocals]
    /\ UNCHANGED <<groupQueues, statelessCounter, sessions, now, nextSid>>
    /\ UNCHANGED <<routerVars, diskVars>>

\* bootstrap(): called by start() without the queue
bootstrap ==
    /\ Len(tasks) < MaxTasks
    /\ \A i \in DOMAIN tasks : tasks[i].via # "bootstrap"
    /\ tasks' = Append(tasks,
          NewTask("bootstrap", <<>>, [sessionGroup |-> NoGroup, noSessionPersistence |-> FALSE],
                  0, "bootstrap"))
    /\ UNCHANGED <<groupQueues, statelessCounter, sessions, now, nextSid>>
    /\ UNCHANGED <<routerVars, diskVars>>

\* const existing = await getSession(); if (existing) return; await execClaude("bootstrap", ...)
BootstrapGet(i) ==
    /\ tasks[i].pc = "bootstrap"
    /\ sessions' = getSessionForGroup(sessions, DefaultGroup, now)
    /\ tasks' = [tasks EXCEPT ![i].pc =
                    IF getSession(sessions, now) # Null THEN "fulfilled" ELSE "getExisting"]
    /\ UNCHANGED <<groupQueues, statelessCounter, now, nextSid>>
    /\ UNCHANGED <<routerVars, diskVars>>

----------------------------------------------------------------------------
(* Files under .claude/claudeclaw/sessions *)

\* whisper-warmup.ts:18
MAP_FILE == "message-map.json"

\* session-registry.ts:6
REGISTRY_FILE == "registry.json"

\* session-registry.ts:41  REGISTRY_FILE + ".tmp"
TmpFile == "registry.json.tmp"

\* a file that does not exist
Missing == [state |-> "missing", data |-> <<>>]

\* content that does not parse as JSON: a file cut short, or garbage
Torn == [state |-> "torn", data |-> <<>>]

\* a file that holds the JSON text of `data`
Data(data) == [state |-> "data", data |-> data]

NoFiles == [name \in {MAP_FILE, REGISTRY_FILE, TmpFile} |-> Missing]

\* the router has loaded nothing, no registry call is in flight, no file is there
NoStores ==
    /\ messageSessionMap = <<>>
    /\ mapLoaded = FALSE
    /\ calls = <<>>
    /\ files = NoFiles
    /\ cached = FALSE

----------------------------------------------------------------------------

Init ==
    /\ groupQueues = <<>>
    /\ statelessCounter = 0
    /\ sessions = <<>>
    /\ tasks = <<>>
    /\ now = 0
    /\ nextSid = 0
    /\ NoStores

Next ==
    \/ \E options \in RunOptions : run(options)
    \/ bootstrap
    \/ \E i \in DOMAIN tasks : Start(i)
    \/ \E i \in DOMAIN tasks : CheckAndRotate(i)
    \/ \E i \in DOMAIN tasks : Estimate(i)
    \/ \E i \in DOMAIN tasks : UpdateTokenCount(i)
    \/ \E i \in DOMAIN tasks : RotateSession(i)
    \/ \E i \in DOMAIN tasks : GetExisting(i)
    \/ \E i \in DOMAIN tasks : RunClaudeOnce(i)
    \/ \E i \in DOMAIN tasks : RunFallback(i)
    \/ \E i \in DOMAIN tasks : CreateSession(i)
    \/ \E i \in DOMAIN tasks : WriteLog(i)
    \/ \E i \in DOMAIN tasks : BootstrapGet(i)

Spec == Init /\ [][Next]_vars

----------------------------------------------------------------------------
(* The registry on its own: its exported operations called in any order, as the   *)
(* executor, the sessions shim and the dashboard call them.                       *)

RegistryGroups == {<<"ops">>, DefaultGroup}

\* getSessionForGroup(group)
RegGet(group) ==
    /\ sessions' = getSessionForGroup(sessions, group, now)
    /\ UNCHANGED <<groupQueues, statelessCounter, tasks, now, nextSid>>
    /\ UNCHANGED <<routerVars, diskVars>>

\* createSessionForGroup(group, sessionId) with a session id the agent has just issued
RegCreate(group) ==
    /\ nextSid < MaxTasks
    /\ nextSid' = nextSid + 1
    /\ sessions' = createSessionForGroup(sessions, group, nextSid + 1, now)
    /\ UNCHANGED <<groupQueues, statelessCounter, tasks, now>>
    /\ UNCHANGED <<routerVars, diskVars>>

\* updateTokenCount(group, tokens)
RegUpdate(group, tokens) ==
    /\ sessions' = updateTokenCount(sessions, group, tokens)
    /\ UNCHANGED <<groupQueues, statelessCounter, tasks, now, nextSid>>
    /\ UNCHANGED <<routerVars, diskVars>>

\* rotateSession(group, summary?)
RegRotate(group, summary) ==
    /\ sessions' = rotateSession(sessions, group, summary, now)
    /\ UNCHANGED <<groupQueues, statelessCounter, tasks, now, nextSid>>
    /\ UNCHANGED <<routerVars, diskVars>>

\* time passes
Tick ==
    /\ now < MaxTime
    /\ now' = now + 1
    /\ UNCHANGED <<groupQueues, statelessCounter, sessions, tasks, nextSid>>
    /\ UNCHANGED <<routerVars, diskVars>>

NextRegistry ==
    \/ \E group \in RegistryGroups : RegGet(group)
    \/ \E group \in RegistryGroups : RegCreate(group)
    \/ \E group \in RegistryGroups, tokens \in TokenEstimates : RegUpdate(group, tokens)
    \/ \E group \in RegistryGroups, summary \in {<<>>, <<"reset by user">>} :
          RegRotate(group, summary)
    \/ Tick

SpecRegistry == Init /\ [][NextRegistry]_vars

----------------------------------------------------------------------------
(* Properties *)

Queued == {i \in DOMAIN tasks : tasks[i].via = "run"}

\* inside fn: started and not yet settled
InFlight(i) == tasks[i].pc \notin {"queued"} \cup Settled

SameKey(i, j) == tasks[i].key = tasks[j].key

\* C1: tasks submitted to the queue under one key complete in the order in which
\* they were submitted: at no time has a task settled while a task submitted
\* earlier under the same key has not, whether the earlier ones succeed or fail.
C1_CompletionOrderIsSubmissionOrder ==
    \A i, j \in Queued :
        (i < j /\ SameKey(i, j) /\ tasks[j].pc \in Settled) => tasks[i].pc \in Settled

\* two tasks under one key have both completed, the earlier one by failing
C1_Witness ==
    \E i, j \in Queued :
        /\ i < j /\ SameKey(i, j)
        /\ tasks[i].pc = "rejected"
        /\ tasks[j].pc = "fulfilled"

\* C2: at most one task per key is executing at any time, and a task that has
\* begun finds every task submitted earlier under its key settled.
C2_OneInFlightPerKey ==
    \A i, j \in Queued :
        (i < j /\ SameKey(i, j)) =>
            /\ ~(InFlight(i) /\ InFlight(j))
            /\ tasks[j].pc # "queued" => tasks[i].pc \in Settled

\* a task waits in the queue while the previous task of its key is executing
C2_Witness ==
    \E i, j \in Queued :
        /\ i < j /\ SameKey(i, j)
        /\ InFlight(i)
        /\ tasks[j].pc = "queued"

\* C9: the start of a queued task never waits for a task under a different key:
\* whenever every task submitted earlier under its own key has settled, it can
\* start, whatever tasks under other keys are doing.
C9_NoWaitAcrossKeys ==
    \A j \in Queued :
        (/\ tasks[j].pc = "queued"
         /\ \A i \in Queued : (i < j /\ SameKey(i, j)) => tasks[i].pc \in Settled)
        => ENABLED Start(j)

\* two tasks with different keys are in flight at the same time, the one submitted
\* later having started while the earlier one was executing
C9_Witness ==
    \E i, j \in Queued :
        /\ i < j /\ ~SameKey(i, j)
        /\ InFlight(i) /\ InFlight(j)
        /\ ~tasks[i].options.noSessionPersistence
        /\ ~tasks[j].options.noSessionPersistence

Live(e) == ~Includes(e.group, ArchivedMark)

\* C3: after any sequence of registry operations the registry holds at most one
\* live (non-archived) entry per group; a create on a group that has a live entry
\* replaces that entry.
C3_AtMostOneLiveEntryPerGroup ==
    \A i, j \in DOMAIN sessions :
        (i # j /\ Live(sessions[i]) /\ Live(sessions[j]))
        => sessions[i].group # sessions[j].group

\* a second create on a group, with no archive in between, has replaced the first
\* entry: the group's entry is the only one and carries the second session id
C3_Witness ==
    /\ nextSid = 2
    /\ Len(sessions) = 1
    /\ Live(sessions[1])
    /\ sessions[1].sessionId = 2

\* steps 2 to 7 of the executor: rotation check, lookup, external call, creation
ExecutorSteps ==
    {"checkAndRotate", "estimate", "updateTokenCount", "rotateSession", "getExisting",
     "runClaudeOnce", "runFallback", "createSession"}

Persistent(i) == ~tasks[i].options.noSessionPersistence

\* C4: for one group, the executor steps of two persistent invocations never
\* interleave: no two of them are between rotation check and entry creation at the
\* same time.
C4_NoInterleavingWithinGroup ==
    \A i, j \in DOMAIN tasks :
        (/\ i # j
         /\ Persistent(i) /\ Persistent(j)
         /\ GroupOf(tasks[i].options) = GroupOf(tasks[j].options))
        => ~(tasks[i].pc \in ExecutorSteps /\ tasks[j].pc \in ExecutorSteps)

\* C5: a step of an invocation marked noSessionPersistence never changes the
\* registry, whatever its other options and whatever the external call returns.
C5_StatelessLeavesRegistryAlone ==
    [][\A i \in DOMAIN tasks :
          (tasks[i].options.noSessionPersistence /\ tasks'[i] # tasks[i])
          => sessions' = sessions]_vars

\* a live entry of `sessions` is no longer live in `sessions'`
SomeEntryArchived ==
    /\ sessions' # sessions
    /\ Len(listSessions(sessions')) < Len(listSessions(sessions))

C7_RotationCheckBeforeEveryPersistentInvocation ==
    [][\A i \in DOMAIN tasks :
          (/\ Persistent(i)
           /\ tasks'[i].pc = "getExisting"
           /\ tasks[i].pc # "getExisting")
          => tasks[i].pc \in {"checkAndRotate", "updateTokenCount", "rotateSession"}]_vars

\* C8: an invocation whose options name no session group resumes no session,
\* creates no session entry and never waits in the queue behind another invocation.
C8_NoGroupMeansStateless ==
    \A i \in Queued :
        tasks[i].options.sessionGroup = NoGroup
        => /\ tasks[i].locals.existing = Null
           /\ tasks[i].pc # "createSession"
           /\ tasks[i].pc = "queued" => PrevSettled(tasks[i])

\* C10: the key of a stateless call is used by no other call, stateless or for a
\* named group, and the call is chained behind nothing.
C10_StatelessKeyIsFresh ==
    \A i \in Queued :
        tasks[i].options.noSessionPersistence
        => /\ tasks[i].prev = 0
           /\ \A j \in Queued \ {i} : ~SameKey(i, j)

\* the task that task j was chained behind has failed
BehindFailed(j) ==
    IF tasks[j].prev = 0 THEN FALSE ELSE tasks[tasks[j].prev].pc = "rejected"

\* C11: the failure of a queued task stays with that task: the promise returned to
\* its submitter is rejected and stays so, a task chained behind it can start as
\* soon as it has failed, and a waiting task leaves the queue only by starting its
\* own function, never by taking over the failure.
C11_FailureDeliveredAndChainContinues ==
    /\ [](\A j \in Queued :
            (tasks[j].pc = "queued" /\ BehindFailed(j)) => ENABLED Start(j))
    /\ [][\A j \in Queued :
             /\ tasks[j].pc = "queued"
                => tasks'[j].pc \in {"queued", FirstStep(tasks[j].options)}
             /\ tasks[j].pc \in Settled => tasks'[j].pc = tasks[j].pc]_vars

\* a task chained behind a failed one has run, recorded its session and returned
C11_Witness ==
    \E j \in Queued :
        /\ BehindFailed(j)
        /\ tasks[j].pc = "fulfilled"
        /\ \E k \in DOMAIN sessions : sessions[k].group = tasks[j].key

----------------------------------------------------------------------------
(* The queue on its own: enqueue with any function fn.  fn is called once the     *)
(* tail it was chained behind has settled; the promise it returns may fulfil,      *)
(* reject, or stay pending for ever (runClaudeOnce awaits the child's pipes and    *)
(* exit without a timeout).  The event loop runs a promise reaction once the       *)
(* promise it is attached to has settled, hence weak fairness on Start alone.      *)

\* the promise returned by fn settles; it is the promise enqueue returned
FnSettles(i) ==
    /\ tasks[i].via = "run"
    /\ InFlight(i)
    /\ \E outcome \in Settled : tasks' = [tasks EXCEPT ![i].pc = outcome]
    /\ UNCHANGED <<groupQueues, statelessCounter, sessions, now, nextSid>>
    /\ UNCHANGED <<routerVars, diskVars>>

NextQueue ==
    \/ \E options \in RunOptions : run(options)
    \/ \E i \in DOMAIN tasks : Start(i)
    \/ \E i \in DOMAIN tasks : FnSettles(i)

SpecQueue ==
    /\ Init
    /\ [][NextQueue]_vars
    /\ \A i \in 1..MaxTasks : WF_vars(i \in DOMAIN tasks /\ Start(i))

\* task j waits in the queue and every task submitted earlier under its key has settled
Ready(j) ==
    /\ j \in Queued
    /\ tasks[j].pc = "queued"
    /\ \A i \in Queued : (i < j /\ SameKey(i, j)) => tasks[i].pc \in Settled

----------------------------------------------------------------------------
(* The runner together with the operations of the sessions shim that archive the  *)
(* default group's entry.  They are exported for the command handlers; enqueue is  *)
(* private to the runner, so a caller cannot put them on the group's queue.        *)

\* resetSession(): await rotateSession("default", "reset by user")
resetSession ==
    /\ sessions' = rotateSession(sessions, DefaultGroup, <<"reset by user">>, now)
    /\ UNCHANGED <<groupQueues, statelessCounter, tasks, now, nextSid>>
    /\ UNCHANGED <<routerVars, diskVars>>

\* backupSession() is called
backupSession ==
    /\ Len(tasks) < MaxTasks
    /\ tasks' = Append(tasks,
          NewTask("backup", <<>>, [sessionGroup |-> NoGroup, noSessionPersistence |-> FALSE],
                  0, "backupGet"))
    /\ UNCHANGED <<groupQueues, statelessCounter, sessions, now, nextSid>>
    /\ UNCHANGED <<routerVars, diskVars>>

\* const entry = await getSessionForGroup("default"); if (!entry) return null
BackupGet(i) ==
    /\ tasks[i].pc = "backupGet"
    /\ sessions' = getSessionForGroup(sessions, DefaultGroup, now)
    /\ tasks' = [tasks EXCEPT ![i].pc =
                    IF getSession(sessions, now) = Null THEN "fulfilled" ELSE "backupRotate"]
    /\ UNCHANGED <<groupQueues, statelessCounter, now, nextSid>>
    /\ UNCHANGED <<routerVars, diskVars>>

\* await Bun.write(backupPath, ...), which may throw;
\* await rotateSession("default", "backed up"); return backupName
BackupRotate(i) ==
    /\ tasks[i].pc = "backupRotate"
    /\ \E written \in BOOLEAN :
          IF written
          THEN /\ sessions' = rotateSession(sessions, DefaultGroup, <<"backed up">>, now)
               /\ tasks' = [tasks EXCEPT ![i].pc = "fulfilled"]
          ELSE /\ tasks' = [tasks EXCEPT ![i].pc = "rejected"]
               /\ UNCHANGED sessions
    /\ UNCHANGED <<groupQueues, statelessCounter, now, nextSid>>
    /\ UNCHANGED <<routerVars, diskVars>>

NextShim ==
    \/ Next
    \/ resetSession
    \/ backupSession
    \/ \E i \in DOMAIN tasks : BackupGet(i)
    \/ \E i \in DOMAIN tasks : BackupRotate(i)

SpecShim == Init /\ [][NextShim]_vars

\* invocation i has fetched the live entry of its group and has not finished
HoldsEntry(i) ==
    /\ tasks[i].via \in {"run", "bootstrap"}
    /\ Persistent(i)
    /\ tasks[i].pc \in {"runClaudeOnce", "runFallback", "createSession", "writeLog"}

\* the step archives the live entry of `group`
Archives(group) ==
    /\ FindIndex(sessions, group) > 0
    /\ sessions'[FindIndex(sessions, group)].group # group

\* C13: from the moment an invocation has fetched the live entry of its group until
\* it finishes, no step of anyone else (rotation check of another invocation,
\* resetSession, backupSession) archives the live entry of that group.
C13_NoArchiveWhileInvocationInFlight ==
    [][\A i \in DOMAIN tasks :
          (HoldsEntry(i) /\ tasks'[i] = tasks[i])
          => ~Archives(GroupOf(tasks[i].options))]_vars

\* invocation i returns in this step, having started a new session and parsed a
\* session_id out of the agent's output
ReturnsWithNewSession(i) ==
    /\ tasks[i].pc = "writeLog"
    /\ tasks'[i].pc = "fulfilled"
    /\ tasks[i].locals.existing = Null
    /\ tasks[i].locals.sessionId # UndefinedSid

\* C14: when a persistent invocation that found no live entry for its group has
\* exited 0 with a session_id s in its output, then on its return the group's live
\* entry carries sessionId s and contentTokens 0.
C14_NewSessionIsRecorded ==
    [][\A i \in DOMAIN tasks :
          (Persistent(i) /\ ReturnsWithNewSession(i))
          => LET k == FindIndex(sessions', GroupOf(tasks[i].options))
             IN  /\ k > 0
                 /\ sessions'[k].sessionId = tasks[i].locals.sessionId
                 /\ sessions'[k].contentTokens = 0]_vars

----------------------------------------------------------------------------
(* The daemon started on a registry file that an earlier run has left: load()     *)
(* takes sessions.json as it is.  The file below holds one live entry of group     *)
(* "ops" whose recorded contentTokens is above the threshold, as a run leaves it   *)
(* that stopped between updateTokenCount and rotateSession, or that ran with a     *)
(* higher sessionRotation.threshold.  The invocations are those of that group.     *)

PersistedRegistry ==
    << [NewEntry(<<"ops">>, 1, 0) EXCEPT
           !.contentTokens = DEFAULT_ROTATION_THRESHOLD + 10000] >>

InitRestart ==
    /\ groupQueues = <<>>
    /\ statelessCounter = 0
    /\ sessions = PersistedRegistry
    /\ tasks = <<>>
    /\ now = 0
    /\ nextSid = 1
    /\ NoStores

\* the invocations made for the group of the persisted entry
OpsOptions == {options \in RunOptions : options.sessionGroup = <<"ops">>}

NextRestart ==
    \/ \E options \in OpsOptions : run(options)
    \/ \E i \in DOMAIN tasks : Start(i)
    \/ \E i \in DOMAIN tasks : CheckAndRotate(i)
    \/ \E i \in DOMAIN tasks : Estimate(i)
    \/ \E i \in DOMAIN tasks : UpdateTokenCount(i)
    \/ \E i \in DOMAIN tasks : RotateSession(i)
    \/ \E i \in DOMAIN tasks : GetExisting(i)
    \/ \E i \in DOMAIN tasks : RunClaudeOnce(i)
    \/ \E i \in DOMAIN tasks : RunFallback(i)
    \/ \E i \in DOMAIN tasks : CreateSession(i)
    \/ \E i \in DOMAIN tasks : WriteLog(i)

SpecRestart == InitRestart /\ [][NextRestart]_vars

\* the live entry of `group` records contentTokens at or above the threshold
RecordedAtOrAbove(group) ==
    /\ FindIndex(sessions, group) > 0
    /\ sessions[FindIndex(sessions, group)].contentTokens >= DEFAULT_ROTATION_THRESHOLD

\* the rotation check of invocation i decides in this step
CheckDecides(i) == tasks[i].pc = "updateTokenCount" /\ tasks'[i].pc # "updateTokenCount"

\* C15 as stated: a rotation check that finds the live entry of its group recording
\* contentTokens at or above the threshold goes on to archive it.
C15_RecordedTokensTriggerRotation ==
    [][\A i \in DOMAIN tasks :
          (CheckDecides(i) /\ RecordedAtOrAbove(GroupOf(tasks[i].options)))
          => tasks'[i].pc = "rotateSession"]_vars

\* the session ids the registry holds, live or archived
SessionIds(s) == {s[k].sessionId : k \in DOMAIN s}

\* C15 amended: a rotation check whose fresh estimate is at or above the threshold,
\* whatever the entry recorded before, goes on to archive; right after its archive
\* the group has no live entry; and an invocation of the group that has found no
\* live entry and exits 0 with a session id records, as the group's live entry, an
\* entry with that id and no tokens, an id the registry did not hold before.
C15_FreshEstimateTriggersRotation ==
    [][\A i \in DOMAIN tasks :
          LET group == GroupOf(tasks[i].options)
          IN  /\ (CheckDecides(i) /\ tasks[i].locals.tokens >= DEFAULT_ROTATION_THRESHOLD)
                 => tasks'[i].pc = "rotateSession"
              /\ (tasks[i].pc = "rotateSession" /\ tasks'[i].pc # "rotateSession")
                 => FindIndex(sessions', group) = 0
              /\ (tasks[i].pc = "createSession" /\ tasks'[i].pc # "createSession")
                 => /\ FindIndex(sessions', group) > 0
                    /\ sessions'[FindIndex(sessions', group)].sessionId
                          = tasks[i].locals.sessionId
                    /\ sessions'[FindIndex(sessions', group)].contentTokens = 0
                    /\ tasks[i].locals.sessionId \notin SessionIds(sessions)]_vars

\* the entry the daemon started with has been archived by a rotation check, and the
\* invocation that ran the check has recorded a new live entry for the group
C15_Witness ==
    /\ Len(sessions) = 2
    /\ ~Live(sessions[1])
    /\ sessions[1].sessionId = 1
    /\ Live(sessions[2])
    /\ sessions[2].group = <<"ops">>
    /\ sessions[2].sessionId # 1

----------------------------------------------------------------------------
(* The archive operation on the registries its callers can have built *)

\* an entry with session id `sid` is among `list`
Lists(list, sid) == \E k \in DOMAIN list : list[k].sessionId = sid

\* C16: on every registry the operations can build, for every group and summary:
\* an archive of a group that has a live entry returns that entry's sessionId,
\* leaves get for the group absent, drops the entry from listSessions and keeps it
\* in listAllSessions at its place with its sessionId, its token count and the
\* summary given (the old one when none is given); an archive of a group without
\* a live entry returns null and leaves the registry as it was.
C16_ArchiveSeversPointerOnly ==
    \A group \in RegistryGroups, summary \in {<<>>, <<"reset by user">>} :
        LET k == FindIndex(sessions, group)
            after == rotateSession(sessions, group, summary, now)
            returned == rotateSessionReturns(sessions, group)
        IN  IF k > 0
            THEN /\ returned = <<sessions[k].sessionId>>
                 /\ GetEntry(after, group, now) = Null
                 /\ ~Lists(listSessions(after), sessions[k].sessionId)
                 /\ Len(listAllSessions(after)) = Len(listAllSessions(sessions))
                 /\ listAllSessions(after)[k].sessionId = sessions[k].sessionId
                 /\ listAllSessions(after)[k].contentTokens = sessions[k].contentTokens
                 /\ listAllSessions(after)[k].summary =
                       IF summary # <<>> THEN summary ELSE sessions[k].summary
                 /\ \A j \in DOMAIN sessions \ {k} : after[j] = sessions[j]
            ELSE /\ returned = Null
                 /\ after = sessions

\* a group's entry has been archived with a summary, the group has a new live entry,
\* and a second archive is about to apply to it
C16_Witness ==
    /\ Len(sessions) = 2
    /\ ~Live(sessions[1])
    /\ sessions[1].summary = <<"reset by user">>
    /\ Live(sessions[2])
    /\ sessions[2].group \o <<ArchivedMark, "0">> = sessions[1].group

----------------------------------------------------------------------------
(* The external calls of one invocation *)

ExternalCall == {"runClaudeOnce", "runFallback"}

\* the fallbacks of Settings that a rate-limited primary call is retried with
RetriedFallbacks ==
    {x.fallback : x \in {y \in Settings : UsesFallback("rateLimit", y.primary, y.fallback)}}

\* C18: the retry condition holds for no outcome but the rate-limit signature, and
\* on it exactly for the fallbacks that are configured and differ from the primary:
\* not for an absent or blank fallback, nor for the primary's model written in
\* another case with outer blanks, but for the same model with a credential of its
\* own and for another model.  An invocation issues the primary call once, the
\* fallback call only on the return of the primary call, and no call after the
\* fallback call has returned: never more than two.
C18_OneRetryOnRateLimit ==
    /\ [](/\ RetriedFallbacks = { [model |-> <<"o", "p", "u", "s">>, api |-> <<"k">>],
                                  [model |-> <<"g", "l", "m">>, api |-> <<>>] }
          /\ \A outcome \in Outcomes(TRUE) \ {"rateLimit"}, x \in Settings :
                ~UsesFallback(outcome, x.primary, x.fallback))
    /\ [][\A i \in DOMAIN tasks :
             LET before == tasks[i].pc
                 after == tasks'[i].pc
             IN  /\ (after = "runClaudeOnce" /\ before # after)
                    => before \in {"queued", "getExisting"}
                 /\ (after = "runFallback" /\ before # after) => before = "runClaudeOnce"
                 /\ (before = "runFallback" /\ tasks'[i] # tasks[i])
                    => after \notin ExternalCall]_vars

\* a resuming invocation has been rate-limited on the primary call and is retrying
\* with the fallback
C18_Witness ==
    \E i \in DOMAIN tasks :
        /\ tasks[i].pc = "runFallback"
        /\ tasks[i].locals.existing # Null

----------------------------------------------------------------------------
(* The result of an invocation.                                                   *)

\* the step in which invocation i's last external call returns `outcome`
LastCallReturns(i, outcome) ==
    /\ tasks[i].pc \in ExternalCall
    /\ tasks'[i].pc \notin ExternalCall
    /\ outcome \in Outcomes(tasks[i].locals.existing = Null)
    /\ AfterExec(i, outcome)

\* invocation i takes a step between the return of its last external call and its
\* own return
StepsAfterLastCall(i) ==
    /\ tasks[i].pc \in {"createSession", "writeLog"}
    /\ tasks'[i] # tasks[i]

\* C19: when the last external call of an invocation returns with the rate-limit
\* signature, the result carries the rate-limit message, the output is not parsed
\* (no session id is taken from it), the invocation goes straight on to write its
\* log and return, and neither that step nor the return changes the registry.
C19_RateLimitedResultIsSurfaced ==
    [][\A i \in DOMAIN tasks :
          /\ LastCallReturns(i, "rateLimit")
             => /\ ResultStdout(tasks[i], "rateLimit") = "rateLimitMessage"
                /\ ~Parsed(tasks[i], "rateLimit")
                /\ tasks'[i].locals.sessionId = UndefinedSid
                /\ tasks'[i].pc = "writeLog"
                /\ sessions' = sessions
          /\ (StepsAfterLastCall(i) /\ tasks[i].pc = "writeLog")
             => tasks'[i].pc = "fulfilled" /\ sessions' = sessions]_vars

\* an invocation that started a new session for a named group has come back from the
\* fallback call without a session id: the group is still without an entry
C19_Witness ==
    \E i \in DOMAIN tasks :
        /\ tasks[i].pc = "writeLog"
        /\ tasks[i].options.sessionGroup # NoGroup
        /\ tasks[i].locals.existing = Null
        /\ tasks[i].locals.sessionId = UndefinedSid
        /\ FindIndex(sessions, GroupOf(tasks[i].options)) = 0

\* C20: when the last external call of an invocation that starts a new session exits
\* 0 with output that does not parse, the invocation is not rejected: it goes on to
\* write its log and returns; its result carries the raw output; and no entry is
\* created: it takes no session id, skips the create step and leaves the registry
\* as it is.
C20_UnparsableOutputIsReturnedRaw ==
    [][\A i \in DOMAIN tasks :
          (tasks[i].locals.existing = Null /\ LastCallReturns(i, "okUnparsable"))
          => /\ tasks'[i].pc = "writeLog"
             /\ ResultStdout(tasks[i], "okUnparsable") = "rawStdout"
             /\ ~Creates(tasks[i], "okUnparsable")
             /\ tasks'[i].locals.sessionId = UndefinedSid
             /\ sessions' = sessions]_vars

\* a persistent invocation of the default group that found no live entry has
\* returned without ever recording one
C20_Witness ==
    \E i \in DOMAIN tasks :
        /\ tasks[i].pc = "fulfilled"
        /\ tasks[i].via = "run"
        /\ tasks[i].options = [sessionGroup |-> NoGroup, noSessionPersistence |-> FALSE]
        /\ sessions = <<>>
        /\ nextSid = 0

----------------------------------------------------------------------------
(* Message router (src/src/whisper-warmup.ts, lines 15-115): the reply-route map. *)
(* A Map keeps its keys in insertion order: it is a sequence of <<id, group>>.    *)
(* A call runs without interruption from where it is made to the first file       *)
(* operation it waits for, and from the end of that operation to the next one.    *)

\* the bound of the map: stands for MAX_ENTRIES = 500 (whisper-warmup.ts:19)
MaxEntries == 2

\* the calls of one run of the model
MaxCalls == 2

SecretaryGroup == <<"secretary">>

GeneralGroup == <<"general">>

\* position of key `id` in the map, 0 when the map has no such key
KeyIndex(m, id) ==
    IF \E k \in DOMAIN m : m[k][1] = id
    THEN CHOOSE k \in DOMAIN m : m[k][1] = id /\ \A j \in 1..(k - 1) : m[j][1] # id
    ELSE 0

\* a set that moves a key it overwrites to the end, as a delete and insert would
MapSet_MoveToEnd(m, id, group) ==
    Append(SelectSeq(m, LAMBDA e : e[1] # id), <<id, group>>)

\* Map.prototype.set: a key that is present keeps its place
MapSet(m, id, group) ==
    IF KeyIndex(m, id) > 0
    THEN [m EXCEPT ![KeyIndex(m, id)] = <<id, group>>]
    ELSE Append(m, <<id, group>>)

\* a lookup that reads the newest entry instead of the entry of the key
MapGet_Newest(m, id) == IF m = <<>> THEN Null ELSE m[Len(m)][2]

\* Map.prototype.get(id) ?? null
MapGet(m, id) == IF KeyIndex(m, id) = 0 THEN Null ELSE m[KeyIndex(m, id)][2]

\* new Map(data), the pairs set one after the other: a key stands where it comes
\* first and has the value it comes with last
NewMap(data) ==
    LET first == SelectSeq([k \in DOMAIN data |-> k],
                           LAMBDA k : \A j \in 1..(k - 1) : data[j][1] # data[k][1])
        last(k) == CHOOSE x \in DOMAIN data :
                      /\ data[x][1] = data[k][1]
                      /\ \A y \in DOMAIN data : data[y][1] = data[k][1] => y <= x
    IN  [n \in DOMAIN first |-> <<data[first[n]][1], data[last(first[n])][2]>>]

\* a prune that keeps the first entries instead of the last
Slice_KeepsOldest(entries) ==
    IF Len(entries) > MaxEntries THEN SubSeq(entries, 1, MaxEntries) ELSE entries

\* entries.slice(-MAX_ENTRIES)
Slice(entries) ==
    IF Len(entries) > MaxEntries
    THEN SubSeq(entries, Len(entries) - MaxEntries + 1, Len(entries))
    ELSE entries

\* what Bun.file(MAP_FILE).json() and new Map(data) give for a file content; a
\* content that does not parse throws, and the catch leaves an empty map
LoadedMap(content) == IF content.state # "data" THEN <<>> ELSE NewMap(content.data)

\* messageSessionMap.set(botMessageId, group), then saveMap up to its Bun.write
SetAndPrune(m, id, group) == Slice(MapSet(m, id, group))

\* routeByReplyTo(replyToMessageId), once the map is loaded
routeByReplyTo(m, id) == MapGet(m, id)

----------------------------------------------------------------------------
(* Message router: the classifier.  A text is a sequence of tokens; a token is a  *)
(* punctuation mark or bare word, or a string literal that holds the tokens of    *)
(* its content.                                                                   *)

\* a punctuation mark or a bare word of a text
P(x) == [t |-> x, v |-> <<>>]

\* a string literal with the given content
S(content) == [t |-> "str", v |-> content]

\* the string literal "w"
Word(w) == S(<<P(w)>>)

Punctuation == {"{", "}", ":", ","}

SyntaxError == [ok |-> FALSE, kind |-> "none", obj |-> <<>>]

\* the members of an object, between its braces: "key": value, ...
RECURSIVE ParsePairs(_)
ParsePairs(toks) ==
    IF Len(toks) < 3 THEN SyntaxError
    ELSE IF ~(toks[1].t = "str" /\ toks[2].t = ":" /\ toks[3].t \notin Punctuation)
    THEN SyntaxError
    ELSE IF Len(toks) = 3
    THEN [ok |-> TRUE, kind |-> "object", obj |-> << <<toks[1].v, toks[3]>> >>]
    ELSE IF toks[4].t # ","
    THEN SyntaxError
    ELSE LET rest == ParsePairs(SubSeq(toks, 5, Len(toks)))
         IN  IF rest.ok
             THEN [rest EXCEPT !.obj = << <<toks[1].v, toks[3]>> >> \o @]
             ELSE SyntaxError

\* JSON.parse(text): an object of string, number and literal members, a lone
\* scalar, or a SyntaxError
JSONparse(toks) ==
    IF Len(toks) = 1 /\ toks[1].t \notin Punctuation
    THEN [ok |-> TRUE, kind |-> IF toks[1].t = "null" THEN "null" ELSE "scalar", obj |-> <<>>]
    ELSE IF Len(toks) >= 2 /\ toks[1].t = "{" /\ toks[Len(toks)].t = "}"
    THEN IF Len(toks) = 2
         THEN [ok |-> TRUE, kind |-> "object", obj |-> <<>>]
         ELSE ParsePairs(SubSeq(toks, 2, Len(toks) - 1))
    ELSE SyntaxError

\* obj[key] of a parsed object: <<>> when there is no such member, else <<value>>;
\* of two members with one key the later one counts
Field(obj, key) ==
    LET at == {k \in DOMAIN obj : obj[k][1] = <<P(key)>>}
    IN  IF at = {} THEN <<>>
        ELSE << obj[CHOOSE k \in at : \A j \in at : j <= k][2] >>

\* String(value) of a member's value
ToText(token) == IF token.t = "str" THEN token.v ELSE <<token>>

\* a match that stops at the first closing brace
Match_Lazy(text) ==
    LET keys == {j \in DOMAIN text : text[j] = Word("category")}
        opens == {i \in DOMAIN text :
                    text[i].t = "{" /\ \E j \in keys : i < j /\ \E k \in DOMAIN text :
                                                          j < k /\ text[k].t = "}"}
    IN  IF opens = {} THEN <<>>
        ELSE LET i == CHOOSE x \in opens : \A y \in opens : x <= y
                 k == CHOOSE x \in DOMAIN text :
                         /\ text[x].t = "}" /\ \E j \in keys : i < j /\ j < x
                         /\ \A y \in DOMAIN text :
                               (text[y].t = "}" /\ \E j \in keys : i < j /\ j < y) => x <= y
             IN  SubSeq(text, i, k)

\* String(result).match(/\{[\s\S]*"category"[\s\S]*\}/): from the first opening
\* brace that has "category" and a closing brace after it, to the last closing brace
Match(text) ==
    LET keys == {j \in DOMAIN text : text[j] = Word("category")}
        opens == {i \in DOMAIN text :
                    text[i].t = "{" /\ \E j \in keys : i < j /\ \E k \in DOMAIN text :
                                                          j < k /\ text[k].t = "}"}
    IN  IF opens = {} THEN <<>>
        ELSE LET i == CHOOSE x \in opens : \A y \in opens : x <= y
                 k == CHOOSE x \in DOMAIN text :
                         text[x].t = "}" /\ \A y \in DOMAIN text : text[y].t = "}" => y <= x
             IN  SubSeq(text, i, k)

General(reason) == [category |-> "general", reason |-> P(reason)]

\* a classifier that takes the answer without looking at the exit code
classifyMessage_IgnoresExit(proc) ==
    LET parsed == JSONparse(proc.stdout)
        member == IF parsed.kind = "object" THEN Field(parsed.obj, "result") ELSE <<>>
        result == IF member = <<>> \/ member[1].t = "null"
                  THEN proc.stdout ELSE ToText(member[1])
        jsonMatch == Match(result)
        classification == JSONparse(jsonMatch)
    IN  IF proc.spawn = "throws" \/ ~parsed.ok \/ parsed.kind = "null"
        THEN General("classifier_fallback")
        ELSE IF jsonMatch = <<>> THEN General("default")
        ELSE IF ~classification.ok THEN General("classifier_fallback")
        ELSE IF Field(classification.obj, "category") = <<Word("secretary")>>
        THEN [category |-> "secretary",
              reason |-> IF Field(classification.obj, "reason") = <<>>
                            \/ Field(classification.obj, "reason")[1].t = "null"
                         THEN P("classified")
                         ELSE Field(classification.obj, "reason")[1]]
        ELSE General("default")

\* classifyMessage(text) on what the spawned call comes to: Bun.spawn throws, or
\* the call exits with an exit code and a stdout
classifyMessage(proc) ==
    LET parsed == JSONparse(proc.stdout)
        \* parsed.result ?? stdout
        member == IF parsed.kind = "object" THEN Field(parsed.obj, "result") ELSE <<>>
        result == IF member = <<>> \/ member[1].t = "null"
                  THEN proc.stdout ELSE ToText(member[1])
        jsonMatch == Match(result)
        classification == JSONparse(jsonMatch)
    IN  IF proc.spawn = "throws" THEN General("classifier_fallback")
        ELSE IF proc.exitCode # 0 THEN General("classifier_error")
        \* JSON.parse(stdout) throws, or parsed is null and parsed.result throws
        ELSE IF ~parsed.ok \/ parsed.kind = "null" THEN General("classifier_fallback")
        ELSE IF jsonMatch = <<>> THEN General("default")
        ELSE IF ~classification.ok THEN General("classifier_fallback")
        ELSE IF Field(classification.obj, "category") = <<Word("secretary")>>
        THEN [category |-> "secretary",
              reason |-> IF Field(classification.obj, "reason") = <<>>
                            \/ Field(classification.obj, "reason")[1].t = "null"
                         THEN P("classified")
                         ELSE Field(classification.obj, "reason")[1]]
        ELSE General("default")

\* the answer {"category": c} as the tokens of its text
Answer(c) == <<P("{"), Word("category"), P(":"), Word(c), P("}")>>

\* the agent's json output whose result member is the string with content `text`
Output(text) == <<P("{"), Word("result"), P(":"), S(text), P("}")>>

\* what a classifier call can come to.  `says` is the category that the one JSON
\* object in the output carries, "none" when the output holds no such object.
ClassifierRuns ==
    << [spawn |-> "throws", exitCode |-> 0, stdout |-> <<>>, says |-> "none"],
       [spawn |-> "ok", exitCode |-> 1, stdout |-> <<P("Error"), P("overloaded")>>,
        says |-> "none"],
       [spawn |-> "ok", exitCode |-> 1, stdout |-> Output(Answer("secretary")),
        says |-> "secretary"],
       [spawn |-> "ok", exitCode |-> 0, stdout |-> <<P("Error"), P("overloaded")>>,
        says |-> "none"],
       [spawn |-> "ok", exitCode |-> 0, stdout |-> <<P("null")>>, says |-> "none"],
       [spawn |-> "ok", exitCode |-> 0,
        stdout |-> Output(<<P("{"), Word("category"), P(":"), Word("secretary"), P(","),
                            Word("reason"), P(":"), Word("alert"), P("}")>>),
        says |-> "secretary"],
       [spawn |-> "ok", exitCode |-> 0,
        stdout |-> Output(<<P("Sure"), P(":")>> \o Answer("secretary") \o <<P("done")>>),
        says |-> "secretary"],
       [spawn |-> "ok", exitCode |-> 0, stdout |-> Answer("secretary"),
        says |-> "secretary"],
       [spawn |-> "ok", exitCode |-> 0, stdout |-> Output(Answer("general")),
        says |-> "general"],
       [spawn |-> "ok", exitCode |-> 0, stdout |-> Output(Answer("Secretary")),
        says |-> "Secretary"],
       [spawn |-> "ok", exitCode |-> 0,
        stdout |-> Output(<<P("{"), Word("reason"), P(":"), Word("category"), P("}")>>),
        says |-> "none"],
       [spawn |-> "ok", exitCode |-> 0,
        stdout |-> Output(<<P("{"), Word("category"), P(":"), P("7"), P("}")>>),
        says |-> "7"],
       [spawn |-> "ok", exitCode |-> 0,
        stdout |-> Output(<<P("{"), Word("category"), P(":"), Word("secretary")>>),
        says |-> "none"],
       [spawn |-> "ok", exitCode |-> 0,
        stdout |-> Output(Answer("secretary") \o Answer("general")), says |-> "none"],
       [spawn |-> "ok", exitCode |-> 0, stdout |-> Output(<<P("hello")>>),
        says |-> "none"],
       [spawn |-> "ok", exitCode |-> 0,
        stdout |-> <<P("{"), Word("result"), P(":"), P("7"), P("}")>>, says |-> "none"] >>

----------------------------------------------------------------------------
(* Message router: the calls.  route() is the handler of the chat transport that  *)
(* the spec describes (section 4.6): reply continuity first, then classification. *)

\* outgoing message ids that are recorded and replied to
MessageIds == {1, MaxEntries + 1, MaxEntries + 2}

\* incoming messages: replyTo 0 stands for a message that is not a reply
Messages == [replyTo : {0, 1, MaxEntries + 1}, text : {<<"sec", "status">>, <<"hello">>}]

\* the reply-route file as an earlier run of the daemon can have left it: none, one
\* cut short, one entry, and MaxEntries entries
MapFiles ==
    { Missing, Torn, Data(<< <<1, SecretaryGroup>> >>),
      Data([k \in 1..MaxEntries |-> <<k, IF k = 1 THEN SecretaryGroup ELSE GeneralGroup>>]) }

NewCall(op, id, group, text, pc, pruned, result) ==
    [op |-> op, id |-> id, group |-> group, text |-> text, pc |-> pc,
     pruned |-> pruned, result |-> result]

\* loadMap() returns at once: the map is loaded, being loaded, or there is no file
LoadMapReturns == mapLoaded \/ files[MAP_FILE] = Missing

\* recordMessageSession(botMessageId, group), up to the first file operation
recordMessageSession(id, group) ==
    LET pruned == SetAndPrune(messageSessionMap, id, group)
    IN  /\ Len(calls) < MaxCalls
        /\ mapLoaded' = TRUE
        /\ IF LoadMapReturns
           THEN /\ messageSessionMap' = pruned
                /\ calls' = Append(calls, NewCall("record", id, group, <<>>, "opening",
                                                  pruned, Null))
           ELSE /\ calls' = Append(calls, NewCall("record", id, group, <<>>, "reading",
                                                  <<>>, Null))
                /\ UNCHANGED messageSessionMap
        /\ UNCHANGED <<groupQueues, statelessCounter, sessions, tasks, now, nextSid,
                       diskVars>>

\* what route does with the answer of routeByReplyTo: a group is returned as it is,
\* null sends the message to the classifier
AfterLookup(c, found) ==
    IF found # Null
    THEN [calls EXCEPT ![c].pc = "done", ![c].result = found]
    ELSE [calls EXCEPT ![c].pc = "classifying"]

\* route(message), up to the first file operation or the classifier call
route(message) ==
    LET c == Len(calls) + 1
        made == Append(calls, NewCall("route", message.replyTo, Null, message.text,
                                      "reading", <<>>, Null))
    IN  /\ Len(calls) < MaxCalls
        /\ IF message.replyTo = 0
           THEN /\ calls' = [made EXCEPT ![c].pc = "classifying"]
                /\ UNCHANGED mapLoaded
           ELSE /\ mapLoaded' = TRUE
                /\ calls' = IF LoadMapReturns
                            THEN LET found == routeByReplyTo(messageSessionMap,
                                                             message.replyTo)
                                 IN  IF found # Null
                                     THEN [made EXCEPT ![c].pc = "done", ![c].result = found]
                                     ELSE [made EXCEPT ![c].pc = "classifying"]
                            ELSE made
        /\ UNCHANGED <<groupQueues, statelessCounter, sessions, tasks, now, nextSid,
                       messageSessionMap, diskVars>>

\* loadMap: the read of MAP_FILE ends; messageSessionMap = new Map(data), or an
\* empty map when the content does not parse; then the caller goes on
ReadDone(c) ==
    LET loaded == LoadedMap(files[MAP_FILE])
        pruned == SetAndPrune(loaded, calls[c].id, calls[c].group)
    IN  /\ calls[c].pc = "reading"
        /\ IF calls[c].op = "record"
           THEN /\ messageSessionMap' = pruned
                /\ calls' = [calls EXCEPT ![c].pc = "opening", ![c].pruned = pruned]
           ELSE /\ messageSessionMap' = loaded
                /\ calls' = AfterLookup(c, routeByReplyTo(loaded, calls[c].id))
        /\ UNCHANGED <<groupQueues, statelessCounter, sessions, tasks, now, nextSid,
                       mapLoaded, diskVars>>

\* saveMap: Bun.write(MAP_FILE, ...) opens the file and cuts it to nothing
WriteOpen(c) ==
    /\ calls[c].pc = "opening"
    /\ files' = [files EXCEPT ![MAP_FILE] = Torn]
    /\ calls' = [calls EXCEPT ![c].pc = "writing"]
    /\ UNCHANGED <<groupQueues, statelessCounter, sessions, tasks, now, nextSid,
                   messageSessionMap, mapLoaded, cached>>

\* saveMap: the write ends, and recordMessageSession returns
WriteDone(c) ==
    /\ calls[c].pc = "writing"
    /\ files' = [files EXCEPT ![MAP_FILE] = Data(calls[c].pruned)]
    /\ calls' = [calls EXCEPT ![c].pc = "done", ![c].pruned = <<>>]
    /\ UNCHANGED <<groupQueues, statelessCounter, sessions, tasks, now, nextSid,
                   messageSessionMap, mapLoaded, cached>>

\* the group route returns for a classification
GroupOfCategory(classification) ==
    IF classification.category = "secretary" THEN SecretaryGroup ELSE GeneralGroup

\* what classifyMessage gives for each of the classifier calls
Classifications == [k \in DOMAIN ClassifierRuns |-> classifyMessage(ClassifierRuns[k])]

\* route returns the group of the category that classifyMessage gives for call k
Classified(c, k) ==
    calls' = [calls EXCEPT ![c].pc = "done",
                           ![c].result = GroupOfCategory(Classifications[k])]

\* route: the classifier call ends
ClassifyDone(c) ==
    /\ calls[c].pc = "classifying"
    /\ \E k \in DOMAIN ClassifierRuns : Classified(c, k)
    /\ UNCHANGED <<groupQueues, statelessCounter, sessions, tasks, now, nextSid,
                   messageSessionMap, mapLoaded, diskVars>>

InitRouter ==
    /\ groupQueues = <<>>
    /\ statelessCounter = 0
    /\ sessions = <<>>
    /\ tasks = <<>>
    /\ now = 0
    /\ nextSid = 0
    /\ messageSessionMap = <<>>
    /\ mapLoaded = FALSE
    /\ calls = <<>>
    /\ \E content \in MapFiles : files = [NoFiles EXCEPT ![MAP_FILE] = content]
    /\ cached = FALSE

NextRouter ==
    \/ \E id \in MessageIds, group \in {SecretaryGroup, GeneralGroup} :
          recordMessageSession(id, group)
    \/ \E message \in Messages : route(message)
    \/ \E c \in DOMAIN calls : ReadDone(c)
    \/ \E c \in DOMAIN calls : WriteOpen(c)
    \/ \E c \in DOMAIN calls : WriteDone(c)
    \/ \E c \in DOMAIN calls : ClassifyDone(c)

SpecRouter == InitRouter /\ [][NextRouter]_vars

----------------------------------------------------------------------------
(* Properties of the message router *)

\* call c of the next state has looked its id up in the map in this step: it was
\* made in this step or was waiting for the map to be read, and waits no longer
LooksUp(c) ==
    /\ calls'[c].op = "route"
    /\ calls'[c].id # 0
    /\ calls'[c].pc # "reading"
    /\ c \in DOMAIN calls => calls[c].pc = "reading"

C22_ClassificationFallsBackToGeneral ==
    /\ [](\A k \in DOMAIN ClassifierRuns :
             LET proc == ClassifierRuns[k]
                 category == Classifications[k].category
             IN  /\ category \in {"secretary", "general"}
                 /\ category = "secretary"
                    => proc.spawn = "ok" /\ proc.exitCode = 0 /\ proc.says = "secretary")
    /\ [][\A c \in DOMAIN calls :
             (calls[c].pc = "classifying" /\ calls'[c] # calls[c])
             => /\ calls'[c].pc = "done"
                /\ calls'[c].result \in {SecretaryGroup, GeneralGroup}
                /\ \A k \in DOMAIN ClassifierRuns :
                      (Classified(c, k) /\ calls'[c].result = SecretaryGroup)
                      => /\ ClassifierRuns[k].exitCode = 0
                         /\ ClassifierRuns[k].says = "secretary"]_vars

\* a message that is not a reply has been classified and routed to the secretary
\* group, and another one to the general group
C22_Witness ==
    \E c, d \in DOMAIN calls :
        /\ calls[c].op = "route" /\ calls[c].id = 0 /\ calls[c].pc = "done"
        /\ calls[c].result = SecretaryGroup
        /\ calls[d].op = "route" /\ calls[d].id = 0 /\ calls[d].pc = "done"
        /\ calls[d].result = GeneralGroup

\* recordMessageSession call c has completed and no other call records its id
Recorded(c) ==
    /\ calls[c].op = "record"
    /\ calls[c].pc = "done"
    /\ \A d \in DOMAIN calls \ {c} : ~(calls[d].op = "record" /\ calls[d].id = calls[c].id)

\* C23: once recordMessageSession(id, group) has completed, routeByReplyTo(id)
\* gives that group for as long as the entry cannot have been evicted: the map
\* holds fewer entries than its bound.
C23_RecordedRouteIsFound ==
    \A c \in DOMAIN calls :
        (Recorded(c) /\ Len(messageSessionMap) < MaxEntries)
        => routeByReplyTo(messageSessionMap, calls[c].id) = calls[c].group

\* the map that recordMessageSession call c of the next state sets its entry in
SetsOn(c) ==
    IF c \in DOMAIN calls THEN LoadedMap(files[MAP_FILE]) ELSE messageSessionMap

Keys(m) == {m[k][1] : k \in DOMAIN m}

\* C24: when recordMessageSession sets its entry, the map it leaves holds the
\* entry and no more entries than the bound; the keys it keeps stand in the order
\* they stood in, a key that was not there standing last; and every key it drops
\* stood before every key it keeps.  The map never holds more than the bound.
C24_MapIsBoundedOldestFirst ==
    /\ [](Len(messageSessionMap) <= MaxEntries)
    /\ [][\A c \in DOMAIN calls' :
             (/\ calls'[c].op = "record" /\ calls'[c].pc = "opening"
              /\ c \in DOMAIN calls => calls[c].pc = "reading")
             => LET after == messageSessionMap'
                IN  /\ Len(after) <= MaxEntries
                    /\ Len(after) = IF Len(SetsOn(c)) < MaxEntries
                                    THEN Cardinality(Keys(SetsOn(c)) \cup {calls'[c].id})
                                    ELSE MaxEntries
                    /\ MapGet(after, calls'[c].id) = calls'[c].group
                    /\ Keys(after) \subseteq Keys(SetsOn(c)) \cup {calls'[c].id}
                    /\ \A x, y \in Keys(after) :
                          /\ (x \in Keys(SetsOn(c)) /\ y \in Keys(SetsOn(c)))
                             => (KeyIndex(after, x) < KeyIndex(after, y)
                                 <=> KeyIndex(SetsOn(c), x) < KeyIndex(SetsOn(c), y))
                          /\ (x \notin Keys(SetsOn(c)) /\ x # y)
                             => KeyIndex(after, y) < KeyIndex(after, x)
                    /\ \A x \in Keys(SetsOn(c)) \ Keys(after), y \in Keys(after) :
                          y \in Keys(SetsOn(c))
                          => KeyIndex(SetsOn(c), x) < KeyIndex(SetsOn(c), y)]_vars

\* message 1 was recorded again while the map was full, a new message was recorded
\* after it, and message 1 is the entry that went
C24_Witness ==
    /\ Len(messageSessionMap) = MaxEntries
    /\ KeyIndex(messageSessionMap, 1) = 0
    /\ KeyIndex(messageSessionMap, MaxEntries + 1) = MaxEntries
    /\ \E c, d \in DOMAIN calls :
          /\ c < d
          /\ calls[c].op = "record" /\ calls[c].id = 1
          /\ calls[d].op = "record" /\ calls[d].id = MaxEntries + 1

----------------------------------------------------------------------------
(* The token estimator on its own: one call of estimateSessionTokens, the loop    *)
(* over the lines taken one turn at a time.                                       *)

MaxLines == 3

Transcripts ==
    {NoTranscript} \cup
    {Transcript(lines) : lines \in UNION {[1..n -> Lines] : n \in 0..MaxLines}}

\* const path = await findTranscriptPath(sessionId); if (!path) return 0
FindTranscript(c) ==
    /\ calls[c].pc = "find"
    /\ calls' = IF calls[c].transcript.found
                THEN [calls EXCEPT ![c].pc = "scan"]
                ELSE [calls EXCEPT ![c].pc = "done", ![c].result = Number(0)]
    /\ UNCHANGED <<groupQueues, statelessCounter, sessions, tasks, now, nextSid,
                   messageSessionMap, mapLoaded, diskVars>>

\* one turn of for (const line of text.split("\n"))
ScanStep(c) ==
    /\ calls[c].pc = "scan"
    /\ calls[c].pos <= Len(calls[c].transcript.lines)
    /\ calls' = [calls EXCEPT
                   ![c].totalChars = ScanLine(@, calls[c].transcript.lines[calls[c].pos]),
                   ![c].pos = @ + 1]
    /\ UNCHANGED <<groupQueues, statelessCounter, sessions, tasks, now, nextSid,
                   messageSessionMap, mapLoaded, diskVars>>

\* return Math.round(totalChars / 3.7)
ReturnEstimate(c) ==
    /\ calls[c].pc = "scan"
    /\ calls[c].pos > Len(calls[c].transcript.lines)
    /\ calls' = [calls EXCEPT ![c].pc = "done", ![c].result = Round(calls[c].totalChars)]
    /\ UNCHANGED <<groupQueues, statelessCounter, sessions, tasks, now, nextSid,
                   messageSessionMap, mapLoaded, diskVars>>

InitEstimator ==
    /\ groupQueues = <<>>
    /\ statelessCounter = 0
    /\ sessions = <<>>
    /\ tasks = <<>>
    /\ now = 0
    /\ nextSid = 0
    /\ messageSessionMap = <<>>
    /\ mapLoaded = FALSE
    /\ \E transcript \in Transcripts :
          calls = << [op |-> "estimate", transcript |-> transcript, pos |-> 1,
                      totalChars |-> Number(0), pc |-> "find", result |-> Number(0)] >>
    /\ files = NoFiles
    /\ cached = FALSE

NextEstimator ==
    \/ \E c \in DOMAIN calls : FindTranscript(c)
    \/ \E c \in DOMAIN calls : ScanStep(c)
    \/ \E c \in DOMAIN calls : ReturnEstimate(c)

SpecEstimator == InitEstimator /\ [][NextEstimator]_vars

\* the characters that the lines of a transcript hold
RECURSIVE Chars(_)
Chars(lines) == IF lines = <<>> THEN 0 ELSE Head(lines).chars + Chars(Tail(lines))

\* C26: the estimate of a transcript is never NaN and never negative; it is the
\* characters that its records of the expected shape hold, divided by 3.7 and
\* rounded, whatever lines that do not parse or have another shape stand between
\* them (three records that hold 370 characters and a line that does not parse give
\* 100); and the call returns what the operator gives.
C26_EstimateIsAnInteger ==
    \A c \in DOMAIN calls :
        (calls[c].op = "estimate" /\ calls[c].pc = "done")
        => /\ ~calls[c].result.nan
           /\ calls[c].result.n >= 0
           /\ calls[c].result = estimateSessionTokens(calls[c].transcript)
           /\ calls[c].transcript.found
              => calls[c].result.n = (20 * Chars(calls[c].transcript.lines) + 37) \div 74
           /\ estimateSessionTokens(Transcript(<<
                  Line("ok", "object", Str(120), Absent, 120),
                  Line("error", "none", Absent, Absent, 0),
                  Line("ok", "object",
                       Arr(<<Block(Str(100), Absent), Block(Str(150), Absent)>>), Absent, 250),
                  Line("ok", "object", Absent, Absent, 0) >>)) = Number(100)

\* C25: the estimate of a session without a transcript is the number 0; and a
\* rotation check that has come to that estimate goes on to look the entry up
\* without archiving it: the live entry of the group stays where it is, with its
\* session id.
C25_NoTranscriptNoRotation ==
    /\ [](estimateSessionTokens(NoTranscript) = Number(0))
    /\ [][\A i \in DOMAIN tasks :
             (/\ tasks[i].pc = "updateTokenCount"
              /\ tasks[i].locals.tokens = estimateSessionTokens(NoTranscript).n
              /\ tasks'[i] # tasks[i])
             => LET group == GroupOf(tasks[i].options)
                    k == FindIndex(sessions, group)
                IN  /\ tasks'[i].pc = "getExisting"
                    /\ k > 0 => /\ FindIndex(sessions', group) = k
                                /\ sessions'[k].sessionId = sessions[k].sessionId]_vars

\* the entry the daemon started with, recorded above the threshold, has been through
\* a rotation check that found no transcript: it is live, with 0 tokens
C25_Witness ==
    \E i \in DOMAIN tasks :
        /\ tasks[i].pc = "getExisting"
        /\ FindIndex(sessions, GroupOf(tasks[i].options)) > 0
        /\ sessions[FindIndex(sessions, GroupOf(tasks[i].options))].sessionId = 1
        /\ sessions[FindIndex(sessions, GroupOf(tasks[i].options))].contentTokens = 0

----------------------------------------------------------------------------
(* The registry and its file (src/src/session-registry.ts:21-45).  `sessions` is  *)
(* reg.sessions of the cached registry and `cached` tells whether the cache is    *)
(* set; a call of an exported operation runs from load() to the start of          *)
(* Bun.write without a break when the cache is set, and waits for the read of     *)
(* REGISTRY_FILE when it is not.  A write opens its file (which empties it) and   *)
(* later puts the text there; the rename comes after the write.  Calls of         *)
(* different groups overlap, as the parallel group queues allow, and the process  *)
(* may die at any point.  The sessions directory is there (ensureDir finds it).   *)

\* the entry a registry file of an earlier run holds
PersistedEntry == NewEntry(<<"ops">>, 1, 0)

\* what REGISTRY_FILE may hold when the daemon starts
RegistryFiles == {Missing, Torn, Data(<<>>), Data(<<PersistedEntry>>)}

\* the operations and arguments of the calls
RegistryOps ==
    [op : {"get", "create", "rotate"}, group : RegistryGroups, tokens : {0}]
        \cup [op : {"update"}, group : RegistryGroups, tokens : {DEFAULT_ROTATION_THRESHOLD}]

\* a load() that lets the error of the read or of the parse through
load_NoCatch(content) ==
    [ok |-> content.state = "data", sessions |-> content.data]

\* load(), cache not set: the parsed file, or { sessions: [] } from the catch
load(content) ==
    [ok |-> TRUE, sessions |-> IF content.state = "data" THEN content.data ELSE <<>>]

\* the registry the operation of call c makes of s; n is the session id a create passes
Mutate(s, c, n) ==
    CASE c.op \in {"get", "peek"} -> getSessionForGroup(s, c.group, now)
      [] c.op = "create" -> createSessionForGroup(s, c.group, n, now)
      [] c.op = "update" -> updateTokenCount(s, c.group, c.tokens)
      [] c.op = "rotate" -> rotateSession(s, c.group, <<>>, now)

\* whether the operation comes to save(reg)
Saves(s, c) == c.op = "create" \/ FindIndex(s, c.group) > 0

\* the call after load() has returned s: the operation's change, then save() up to
\* the start of Bun.write (the text is made of the registry as it is then)
AfterLoad(s, c, n) ==
    IF Saves(s, c)
    THEN [c EXCEPT !.pc = "write", !.snapshot = Data(Mutate(s, c, n))]
    ELSE [c EXCEPT !.pc = "done"]

\* a call of an exported operation
RegistryCall(o) ==
    LET c == [op |-> o.op, group |-> o.group, tokens |-> o.tokens, pc |-> "read",
              snapshot |-> Missing, target |-> TmpFile]
        n == Len(calls) + 2
    IN  /\ Len(calls) < MaxCalls
        /\ IF cached
           THEN /\ calls' = Append(calls, AfterLoad(sessions, c, n))
                /\ sessions' = Mutate(sessions, c, n)
           ELSE /\ calls' = Append(calls, c)
                /\ UNCHANGED sessions
        /\ UNCHANGED <<groupQueues, statelessCounter, tasks, now, nextSid,
                       messageSessionMap, mapLoaded, files, cached>>

\* session-registry.ts:29-34  the read of call k ends: cached = the parsed file
LoadDone(k) ==
    LET loaded == load(files[REGISTRY_FILE])
    IN  /\ calls[k].pc = "read"
        /\ IF loaded.ok
           THEN /\ cached' = TRUE
                /\ sessions' = Mutate(loaded.sessions, calls[k], k + 1)
                /\ calls' = [calls EXCEPT ![k] = AfterLoad(loaded.sessions, calls[k], k + 1)]
           ELSE /\ calls' = [calls EXCEPT ![k].pc = "rejected"]
                /\ UNCHANGED <<sessions, cached>>
        /\ UNCHANGED <<groupQueues, statelessCounter, tasks, now, nextSid,
                       messageSessionMap, mapLoaded, files>>

\* session-registry.ts:42  Bun.write opens REGISTRY_FILE + ".tmp": the file is there
\* and empty
SaveOpen(k) ==
    /\ calls[k].pc = "write"
    /\ calls' = [calls EXCEPT ![k].pc = "writing", ![k].target = TmpFile]
    /\ files' = [files EXCEPT ![TmpFile] = Torn]
    /\ UNCHANGED <<groupQueues, statelessCounter, sessions, tasks, now, nextSid,
                   messageSessionMap, mapLoaded, cached>>

\* the text a write from the start of a file leaves in it: what a longer text of
\* another writer has put there since the open stays behind the new text
Written(content, snapshot) ==
    IF content.state = "data" /\ Len(content.data) > Len(snapshot.data)
    THEN Torn ELSE snapshot

\* session-registry.ts:42  the write ends: the text is in the file the descriptor
\* is open on, whatever name the file has by then
SaveWritten(k) ==
    /\ calls[k].pc = "writing"
    /\ calls' = [calls EXCEPT ![k].pc = "rename"]
    /\ files' = IF calls[k].target = "unlinked" THEN files
                ELSE [files EXCEPT ![calls[k].target] = Written(@, calls[k].snapshot)]
    /\ UNCHANGED <<groupQueues, statelessCounter, sessions, tasks, now, nextSid,
                   messageSessionMap, mapLoaded, cached>>

\* session-registry.ts:43-44  rename(tmp, REGISTRY_FILE): it fails when another
\* save has renamed the file away, and the call rejects
SaveRenamed(k) ==
    /\ calls[k].pc = "rename"
    /\ IF files[TmpFile] = Missing
       THEN /\ calls' = [calls EXCEPT ![k].pc = "rejected"]
            /\ UNCHANGED files
       ELSE /\ files' = [files EXCEPT ![REGISTRY_FILE] = files[TmpFile], ![TmpFile] = Missing]
            /\ calls' = [j \in DOMAIN calls |->
                  IF j = k THEN [calls[j] EXCEPT !.pc = "done"]
                  ELSE IF calls[j].pc # "writing" THEN calls[j]
                  ELSE IF calls[j].target = TmpFile
                       THEN [calls[j] EXCEPT !.target = REGISTRY_FILE]
                       ELSE [calls[j] EXCEPT !.target = "unlinked"]]
    /\ UNCHANGED <<groupQueues, statelessCounter, sessions, tasks, now, nextSid,
                   messageSessionMap, mapLoaded, cached>>

SaveInFlight(c) == c.pc \in {"read", "write", "writing", "rename"}

\* the process dies and starts again: the files stay, the cache and the calls in
\* flight are gone
Crash ==
    /\ \E k \in DOMAIN calls : SaveInFlight(calls[k])
    /\ calls' = [k \in DOMAIN calls |->
                    IF SaveInFlight(calls[k]) THEN [calls[k] EXCEPT !.pc = "crashed"]
                    ELSE calls[k]]
    /\ cached' = FALSE
    /\ sessions' = <<>>
    /\ UNCHANGED <<groupQueues, statelessCounter, tasks, now, nextSid,
                   messageSessionMap, mapLoaded, files>>

InitDisk ==
    /\ groupQueues = <<>>
    /\ statelessCounter = 0
    /\ sessions = <<>>
    /\ tasks = <<>>
    /\ now = 1
    /\ nextSid = 0
    /\ messageSessionMap = <<>>
    /\ mapLoaded = FALSE
    /\ calls = <<>>
    /\ cached = FALSE
    /\ \E content \in RegistryFiles : files = [NoFiles EXCEPT ![REGISTRY_FILE] = content]

NextDisk ==
    \/ \E o \in RegistryOps : RegistryCall(o)
    \/ \E k \in DOMAIN calls : LoadDone(k)
    \/ \E k \in DOMAIN calls : SaveOpen(k)
    \/ \E k \in DOMAIN calls : SaveWritten(k)
    \/ \E k \in DOMAIN calls : SaveRenamed(k)
    \/ Crash

SpecDisk == InitDisk /\ [][NextDisk]_vars

\* C27: no step of a registry call, and no death of the process, leaves in the
\* registry file anything but what it held before or the complete text of a
\* registry that a save has been given.
C27_RegistryFileIsNeverTorn ==
    [][files'[REGISTRY_FILE] \in
          {files[REGISTRY_FILE]} \cup
          {calls[k].snapshot : k \in {j \in DOMAIN calls : calls[j].snapshot # Missing}}]_vars

----------------------------------------------------------------------------
(* Properties of the command line and of failed calls *)

\* C29: when an invocation comes to its external call, its command line resumes (the
\* session id of the entry as --resume, text output) if and only if the lookup that
\* follows the rotation check has just returned a live entry of its group; without a
\* lookup, or when the lookup returns nothing, it asks for json and carries no
\* --resume; and a retry with the fallback is made with the same command line.
C29_ResumeIffLiveEntryFound ==
    [][\A i \in DOMAIN tasks :
          /\ (tasks[i].pc # "runClaudeOnce" /\ tasks'[i].pc = "runClaudeOnce")
             => LET found == IF tasks[i].pc = "getExisting"
                             THEN GetEntry(sessions, GroupOf(tasks[i].options), now)
                             ELSE Null
                IN  Args(tasks'[i].locals.existing) =
                        IF found = Null
                        THEN [outputFormat |-> "json", resume |-> Null]
                        ELSE [outputFormat |-> "text", resume |-> <<found[1].sessionId>>]
          /\ (tasks[i].pc \in ExternalCall /\ tasks'[i].pc \in ExternalCall)
             => Args(tasks'[i].locals.existing) = Args(tasks[i].locals.existing)]_vars

\* an invocation is about to resume the session its group's live entry records
C29_Witness ==
    \E i \in DOMAIN tasks :
        /\ tasks[i].pc = "runClaudeOnce"
        /\ tasks[i].locals.existing # Null
        /\ FindIndex(sessions, GroupOf(tasks[i].options)) > 0
        /\ Args(tasks[i].locals.existing) =
              [outputFormat |-> "text",
               resume |-> <<sessions[FindIndex(sessions, GroupOf(tasks[i].options))].sessionId>>]

\* C30: no setting makes a call that exits non-zero without the rate-limit signature
\* be retried; when an external call of an invocation returns so it is the last
\* one, the result carries that exit code and the raw output, the output is not
\* parsed, the invocation skips the create step and goes on to write its log, and
\* neither that step nor the return changes the registry: a group without a live
\* entry still has none, and a live entry keeps its session id.
C30_FailedCallLeavesRegistryAlone ==
    /\ [](\A x \in Settings : ~UsesFallback("nonzero", x.primary, x.fallback))
    /\ [][\A i \in DOMAIN tasks :
             /\ LastCallReturns(i, "nonzero")
                => /\ tasks'[i].pc = "writeLog"
                   /\ ExitCode("nonzero") # 0
                   /\ ResultStdout(tasks[i], "nonzero") = "rawStdout"
                   /\ ~Parsed(tasks[i], "nonzero")
                   /\ ~Creates(tasks[i], "nonzero")
                   /\ tasks'[i].locals.sessionId = UndefinedSid
                   /\ sessions' = sessions
             /\ (StepsAfterLastCall(i) /\ tasks[i].pc = "writeLog")
                => tasks'[i].pc = "fulfilled" /\ sessions' = sessions]_vars

\* a resumed invocation has come back from its only external call without a session
\* id of its own, and the live entry of its group still records the resumed session
C30_Witness ==
    \E i \in DOMAIN tasks :
        /\ tasks[i].pc = "writeLog"
        /\ tasks[i].locals.existing # Null
        /\ tasks[i].locals.sessionId = UndefinedSid
        /\ FindIndex(sessions, GroupOf(tasks[i].options)) > 0
        /\ <<sessions[FindIndex(sessions, GroupOf(tasks[i].options))].sessionId>>
              = tasks[i].locals.existing

----------------------------------------------------------------------------
(* Properties of an invocation whose rotation check has archived *)

\* the rotation check of invocation i has archived the entry with this session id
Rotated(i) == tasks[i].locals.rotating # UndefinedSid

\* C31: an invocation whose rotation check has archived the live entry of its group
\* finds no live entry in the lookup that follows and is issued as a new session,
\* without the archived session id as --resume; and when it records its session, the
\* group's live entry is a new one with the id it received, the archived entry
\* staying in the registry under its archival name.
C31_RotatingInvocationStartsNewSession ==
    [][\A i \in DOMAIN tasks :
          LET group == GroupOf(tasks[i].options)
          IN  /\ (Rotated(i) /\ tasks[i].pc = "getExisting" /\ tasks'[i] # tasks[i])
                 => /\ tasks'[i].pc = "runClaudeOnce"
                    /\ Args(tasks'[i].locals.existing) =
                          [outputFormat |-> "json", resume |-> Null]
              /\ (Rotated(i) /\ tasks[i].pc = "createSession" /\ tasks'[i] # tasks[i])
                 => /\ FindIndex(sessions', group) > 0
                    /\ sessions'[FindIndex(sessions', group)].sessionId
                          = tasks[i].locals.sessionId
                    /\ tasks[i].locals.sessionId # tasks[i].locals.rotating
                    /\ \E k \in DOMAIN sessions' :
                          /\ ~Live(sessions'[k])
                          /\ sessions'[k].sessionId = tasks[i].locals.rotating]_vars

----------------------------------------------------------------------------
(* Properties of the registry operations with their file *)

\* call k does its operation in this step: a new call that finds the cache set, or
\* a call whose read ends
Operates(k) ==
    \/ cached /\ k = Len(calls) + 1 /\ Len(calls') = k
    \/ k \in DOMAIN calls /\ calls[k].pc = "read" /\ calls'[k].pc \notin {"read", "crashed"}

\* the registry before a call operates: the cached one, or the one in the file when
\* nothing is cached
Loaded == IF cached THEN sessions ELSE load(files[REGISTRY_FILE]).sessions

\* C32: a get on a group with a live entry leaves the registry as load() returned it
\* but for lastUsedAt of that entry, which is the present time, and starts a save of
\* that registry; a get on a group without a live entry leaves the registry as
\* load() returned it, does not reject, returns without a save, and the step changes
\* no file.
C32_GetTouchesOnlyLastUsedAt ==
    [][\A k \in DOMAIN calls' :
          (Operates(k) /\ calls'[k].op = "get")
          => LET idx == FindIndex(Loaded, calls'[k].group)
             IN  /\ Len(sessions') = Len(Loaded)
                 /\ \A j \in DOMAIN Loaded :
                       /\ j # idx => sessions'[j] = Loaded[j]
                       /\ j = idx => /\ sessions'[j].lastUsedAt = now
                                     /\ [sessions'[j] EXCEPT !.lastUsedAt = 0]
                                           = [Loaded[j] EXCEPT !.lastUsedAt = 0]
                 /\ files' = files
                 /\ idx > 0 => /\ calls'[k].pc = "write"
                               /\ calls'[k].snapshot = Data(sessions')
                 /\ idx = 0 => /\ calls'[k].pc = "done"
                               /\ calls'[k].snapshot = Missing]_vars

----------------------------------------------------------------------------
(* The registry with the group names callers may choose: options.sessionGroup comes *)
(* from the session_group of a job file and is any text.                           *)

\* a usual name, and a name that has the archival mark in it
NamedGroups == {<<"ops">>, <<"my", ArchivedMark, "jobs">>}

NextNames ==
    \/ \E group \in NamedGroups : RegGet(group)
    \/ \E group \in NamedGroups : RegCreate(group)
    \/ \E group \in NamedGroups : RegRotate(group, <<>>)
    \/ Tick

SpecNames == Init /\ [][NextNames]_vars

\* the entry at place k is installed by a create in this step
Installed(k) == k \notin DOMAIN sessions \/ sessions[k].sessionId # sessions'[k].sessionId

\* the entry at place k is archived in this step
Archived(k) ==
    /\ k \in DOMAIN sessions
    /\ sessions[k].sessionId = sessions'[k].sessionId
    /\ sessions[k].group # sessions'[k].group

\* C33: an entry is in the list of live sessions from the create that installs it
\* until an archive is applied to it, and never after, whatever the group is called.
C33_ListLiveOmitsExactlyTheArchived ==
    [][\A k \in DOMAIN sessions' :
          LET sid == sessions'[k].sessionId
          IN  /\ Installed(k) => Lists(listSessions(sessions'), sid)
              /\ Archived(k) => ~Lists(listSessions(sessions'), sid)
              /\ (~Installed(k) /\ ~Archived(k))
                 => (Lists(listSessions(sessions'), sid) <=> Lists(listSessions(sessions), sid))]_vars

\* C34: no two entries of the registry, live or archived, have the same group name:
\* the name an archive gives is taken by no other entry.
C34_GroupNamesAreUnique ==
    \A i, j \in DOMAIN sessions : i # j => sessions[i].group # sessions[j].group

\* the session id of the live entry of `group` in registry s; UndefinedSid if none
LiveSid(s, group) ==
    IF FindIndex(s, group) = 0 THEN UndefinedSid ELSE s[FindIndex(s, group)].sessionId

\* C35: while the registry is cached, the session id and the creation time at a
\* place of the registry change in one case only: a create installs there, over the
\* live entry of its group, a whole new entry with the id it was given; and the
\* session id of a group's live entry changes to another id only by a create for
\* that group.  No get, updateTokenCount or archive does either.
C35_SessionIdIsImmutable ==
    [][(cached /\ cached')
       => /\ \A k \in DOMAIN sessions \cap DOMAIN sessions' :
                (\/ sessions'[k].sessionId # sessions[k].sessionId
                 \/ sessions'[k].createdAt # sessions[k].createdAt)
                => \E c \in DOMAIN calls' :
                      /\ Operates(c)
                      /\ calls'[c].op = "create"
                      /\ calls'[c].group = sessions[k].group
                      /\ sessions'[k] = NewEntry(sessions[k].group, c + 1, now)
          /\ \A group \in RegistryGroups :
                (/\ LiveSid(sessions, group) # UndefinedSid
                 /\ LiveSid(sessions', group) # UndefinedSid
                 /\ LiveSid(sessions', group) # LiveSid(sessions, group))
                => \E c \in DOMAIN calls' :
                      /\ Operates(c)
                      /\ calls'[c].op = "create"
                      /\ calls'[c].group = group]_vars

----------------------------------------------------------------------------
(* The size of the queue map *)

\* the session groups the calls made so far have named
GroupsInUse == {GroupOf(tasks[i].options) : i \in Queued}

\* the stateless calls that have not settled
StatelessInFlight ==
    {i \in Queued : tasks[i].options.noSessionPersistence /\ tasks[i].pc \notin Settled}

\* C40: the map from keys to tails holds no key of a stateless call that has
\* settled, and holds no more keys than there are session groups in use and
\* stateless calls that have not settled.
C40_SettledStatelessKeysAreDropped ==
    /\ \A i \in Queued :
          (tasks[i].options.noSessionPersistence /\ tasks[i].pc \in Settled)
          => tasks[i].key \notin DOMAIN groupQueues
    /\ Cardinality(DOMAIN groupQueues) <=
          Cardinality(GroupsInUse) + Cardinality(StatelessInFlight)

----------------------------------------------------------------------------
(* Properties of overlapping registry calls *)

\* the calls made so far are for different groups, and the process has not died
DifferentGroups ==
    /\ \A j, k \in DOMAIN calls : j # k => calls[j].group # calls[k].group
    /\ \A k \in DOMAIN calls : calls[k].pc # "crashed"

\* C36: of registry calls made for different groups, none rejects; and once all of
\* them have returned, the registry file holds the text of the cached registry,
\* which has the live entry of every create.
C36_ConcurrentCallsAllComplete ==
    DifferentGroups
    => /\ \A k \in DOMAIN calls : calls[k].pc # "rejected"
       /\ (/\ \A k \in DOMAIN calls : calls[k].pc = "done"
           /\ \E k \in DOMAIN calls : calls[k].snapshot # Missing)
          => /\ files[REGISTRY_FILE] = Data(sessions)
             /\ \A k \in DOMAIN calls :
                   calls[k].op = "create" => LiveSid(sessions, calls[k].group) = k + 1

\* C37: a call whose read of the registry file ends when another call has set the
\* cache operates on the cached registry, with what the other call has done to it,
\* and what it saves is the text of that registry with its own change.
C37_ConcurrentLoadsShareOneRegistry ==
    [][\A k \in DOMAIN calls :
          (cached /\ calls[k].pc = "read" /\ calls'[k].pc \notin {"read", "crashed"})
          => /\ sessions' = Mutate(sessions, calls[k], k + 1)
             /\ calls'[k] = AfterLoad(sessions, calls[k], k + 1)]_vars

----------------------------------------------------------------------------
(* Output that parses and has no session_id.  The agent's JSON is not checked for *)
(* the field: sessionId = json.session_id is undefined and is recorded as it is.  *)

\* the external call of a new session exits 0 with JSON that has no session_id
RunClaudeNoSessionId(i) ==
    /\ tasks[i].pc = "runClaudeOnce"
    /\ tasks[i].locals.existing = Null
    /\ AfterExec(i, "okNoSessionId")
    /\ Elapse
    /\ UNCHANGED <<groupQueues, statelessCounter, sessions>>
    /\ UNCHANGED <<routerVars, diskVars>>

NextOutput ==
    \/ NextRestart
    \/ \E i \in DOMAIN tasks : RunClaudeNoSessionId(i)

SpecOutput == Init /\ [][NextOutput]_vars

\* C38: every live entry of the registry has a session id, and no invocation is
\* rejected at its lookup for finding an entry without one.
C38_LiveEntriesHaveASessionId ==
    /\ \A k \in DOMAIN sessions : Live(sessions[k]) => sessions[k].sessionId # UndefinedSid
    /\ [][\A i \in DOMAIN tasks :
             (tasks[i].pc = "getExisting" /\ tasks'[i] # tasks[i])
             => tasks'[i].pc # "rejected"]_vars

----------------------------------------------------------------------------
(* The dashboard (src/src/web.ts:102-133): buildState calls peekSession of the    *)
(* sessions shim, which calls getSessionForGroup("default").                      *)

\* buildState(snapshot): const session = await peekSession()
buildState == RegistryCall([op |-> "peek", group |-> DefaultGroup, tokens |-> 0])

NextDashboard ==
    \/ buildState
    \/ NextDisk

SpecDashboard == InitDisk /\ [][NextDashboard]_vars

\* C39: a call of buildState leaves the registry as it was (the cached one, or the
\* one in the file when nothing is cached) and returns without starting a save.
C39_DashboardIsReadOnly ==
    [][\A k \in DOMAIN calls' :
          (Operates(k) /\ calls'[k].op = "peek")
          => /\ sessions' = Loaded
             /\ calls'[k].pc = "done"
             /\ files' = files]_vars

====
